---- MODULE Spec2Model ----
(***************************************************************************)
(* The minemind board engine (core/board.py), its deductive solver         *)
(* (core/solver.py), the frontier extractor (core/frontier.py) and the     *)
(* solver batch of the shell (cli.py), as one state machine.               *)
(*                                                                         *)
(* The state is the Board object: rows, cols, mines, state, mines_placed   *)
(* and the grid of Cells.  The operations are Board.reveal, Board.flag and *)
(* MinemindShell.do_solve.  Every operation is a pure operator on a board  *)
(* record; the actions apply it to the current board.  The one source of   *)
(* randomness, random.sample in Board._place_mines, is a choice among all  *)
(* subsets of the candidate pool of the requested size.  The iteration     *)
(* order of a Python set is a choice among IterOrders.                     *)
(***************************************************************************)
EXTENDS Integers, Sequences, FiniteSets, TLC

VARIABLES rows, cols, mines, state, mines_placed, cells

vars == <<rows, cols, mines, state, mines_placed, cells>>

(* Bounds of the model: the largest board, and the most user flags. *)
MaxRows == 2
MaxCols == 4
MaxCells == 8
MaxFlags == 2
MaxMines == 2

(* An optional argument: None, or the one-element tuple of its value. *)
None == <<>>

Some(v) == <<v>>

Range(s) == {s[i] : i \in DOMAIN s}

Min(a, b) == IF a < b THEN a ELSE b

Max(a, b) == IF a > b THEN a ELSE b

(***************************************************************************)
(* Board._get_config and Board.__init__                                    *)
(***************************************************************************)
STANDARD_CONFIGS ==
    [beginner |-> <<9, 9, 10>>, intermediate |-> <<16, 16, 40>>, expert |-> <<30, 16, 99>>]

DifficultyNames == {"beginner", "intermediate", "expert"}

(* Mutant: the default density is rounded up. *)
DefaultDensityMines_Ceil(total_cells) == (total_cells * 15 + 99) \div 100

(* math.floor(total_cells * 0.15) *)
DefaultDensityMines(total_cells) == (total_cells * 15) \div 100

(* Mutant: an unknown difficulty without sizes is resolved as a custom board. *)
get_config_UnknownIsCustom(rows_arg, cols_arg, mines_arg, difficulty) ==
    IF difficulty \in DifficultyNames /\ rows_arg = None /\ cols_arg = None
    THEN STANDARD_CONFIGS[difficulty]
    ELSE LET final_rows == IF rows_arg # None /\ rows_arg[1] > 0
                           THEN rows_arg[1] ELSE STANDARD_CONFIGS["beginner"][1]
             final_cols == IF cols_arg # None /\ cols_arg[1] > 0
                           THEN cols_arg[1] ELSE STANDARD_CONFIGS["beginner"][2]
             total_cells == final_rows * final_cols
             final_mines == IF mines_arg = None
                            THEN DefaultDensityMines(total_cells) ELSE mines_arg[1]
         IN <<final_rows, final_cols, Max(Min(final_mines, total_cells - 1), 0)>>

(* Mutant: a mine count above total_cells - 1 is kept. *)
get_config_NoUpperClamp(rows_arg, cols_arg, mines_arg, difficulty) ==
    IF difficulty \in DifficultyNames /\ rows_arg = None /\ cols_arg = None
    THEN STANDARD_CONFIGS[difficulty]
    ELSE IF difficulty \notin DifficultyNames /\ ~(rows_arg # None \/ cols_arg # None)
    THEN STANDARD_CONFIGS["beginner"]
    ELSE LET final_rows == IF rows_arg # None /\ rows_arg[1] > 0
                           THEN rows_arg[1] ELSE STANDARD_CONFIGS["beginner"][1]
             final_cols == IF cols_arg # None /\ cols_arg[1] > 0
                           THEN cols_arg[1] ELSE STANDARD_CONFIGS["beginner"][2]
             total_cells == final_rows * final_cols
             final_mines == IF mines_arg = None
                            THEN DefaultDensityMines(total_cells) ELSE mines_arg[1]
         IN <<final_rows, final_cols, Max(final_mines, 0)>>

(* Mutant: one invalid dimension discards the other one too. *)
get_config_BothOrDefault(rows_arg, cols_arg, mines_arg, difficulty) ==
    IF difficulty \in DifficultyNames /\ rows_arg = None /\ cols_arg = None
    THEN STANDARD_CONFIGS[difficulty]
    ELSE IF difficulty \notin DifficultyNames /\ ~(rows_arg # None \/ cols_arg # None)
    THEN STANDARD_CONFIGS["beginner"]
    ELSE LET valid == /\ rows_arg # None /\ rows_arg[1] > 0
                      /\ cols_arg # None /\ cols_arg[1] > 0
             final_rows == IF valid THEN rows_arg[1] ELSE STANDARD_CONFIGS["beginner"][1]
             final_cols == IF valid THEN cols_arg[1] ELSE STANDARD_CONFIGS["beginner"][2]
             total_cells == final_rows * final_cols
             final_mines == IF mines_arg = None
                            THEN DefaultDensityMines(total_cells) ELSE mines_arg[1]
         IN <<final_rows, final_cols, Max(Min(final_mines, total_cells - 1), 0)>>

(* Mutant: a negative mine count is not raised to 0. *)
get_config_NoLowerClamp(rows_arg, cols_arg, mines_arg, difficulty) ==
    IF difficulty \in DifficultyNames /\ rows_arg = None /\ cols_arg = None
    THEN STANDARD_CONFIGS[difficulty]
    ELSE IF difficulty \notin DifficultyNames /\ ~(rows_arg # None \/ cols_arg # None)
    THEN STANDARD_CONFIGS["beginner"]
    ELSE LET final_rows == IF rows_arg # None /\ rows_arg[1] > 0
                           THEN rows_arg[1] ELSE STANDARD_CONFIGS["beginner"][1]
             final_cols == IF cols_arg # None /\ cols_arg[1] > 0
                           THEN cols_arg[1] ELSE STANDARD_CONFIGS["beginner"][2]
             total_cells == final_rows * final_cols
             final_mines == IF mines_arg = None
                            THEN DefaultDensityMines(total_cells) ELSE mines_arg[1]
         IN <<final_rows, final_cols, Min(final_mines, total_cells - 1)>>

(* Mutant: a valid difficulty selects its preset whatever rows and cols are. *)
get_config_PresetWins(rows_arg, cols_arg, mines_arg, difficulty) ==
    IF difficulty \in DifficultyNames
    THEN STANDARD_CONFIGS[difficulty]
    ELSE IF ~(rows_arg # None \/ cols_arg # None)
    THEN STANDARD_CONFIGS["beginner"]
    ELSE LET final_rows == IF rows_arg # None /\ rows_arg[1] > 0
                           THEN rows_arg[1] ELSE STANDARD_CONFIGS["beginner"][1]
             final_cols == IF cols_arg # None /\ cols_arg[1] > 0
                           THEN cols_arg[1] ELSE STANDARD_CONFIGS["beginner"][2]
             total_cells == final_rows * final_cols
             final_mines == IF mines_arg = None
                            THEN DefaultDensityMines(total_cells) ELSE mines_arg[1]
         IN <<final_rows, final_cols, Max(Min(final_mines, total_cells - 1), 0)>>

get_config(rows_arg, cols_arg, mines_arg, difficulty) ==
    IF difficulty \in DifficultyNames /\ rows_arg = None /\ cols_arg = None
    THEN STANDARD_CONFIGS[difficulty]
    ELSE IF difficulty \notin DifficultyNames /\ ~(rows_arg # None \/ cols_arg # None)
    THEN STANDARD_CONFIGS["beginner"]
    ELSE LET final_rows == IF rows_arg # None /\ rows_arg[1] > 0
                           THEN rows_arg[1] ELSE STANDARD_CONFIGS["beginner"][1]
             final_cols == IF cols_arg # None /\ cols_arg[1] > 0
                           THEN cols_arg[1] ELSE STANDARD_CONFIGS["beginner"][2]
             total_cells == final_rows * final_cols
             final_mines == IF mines_arg = None
                            THEN DefaultDensityMines(total_cells) ELSE mines_arg[1]
         IN <<final_rows, final_cols, Max(Min(final_mines, total_cells - 1), 0)>>

NewCell == [is_mine |-> FALSE, neighbor_mines |-> 0,
            is_revealed |-> FALSE, is_flagged |-> FALSE]

AllCoords(b) == (0 .. b.rows - 1) \X (0 .. b.cols - 1)

(* Variant: the constructor marks the mines as placed (eager setup). *)
NewBoard_MinesPlaced(rows_arg, cols_arg, mines_arg, difficulty) ==
    LET cfg == get_config(rows_arg, cols_arg, mines_arg, difficulty)
    IN [rows |-> cfg[1], cols |-> cfg[2], mines |-> cfg[3],
        state |-> "PLAYING", mines_placed |-> TRUE,
        cells |-> [p \in (0 .. cfg[1] - 1) \X (0 .. cfg[2] - 1) |-> NewCell]]

NewBoard(rows_arg, cols_arg, mines_arg, difficulty) ==
    LET cfg == get_config(rows_arg, cols_arg, mines_arg, difficulty)
    IN [rows |-> cfg[1], cols |-> cfg[2], mines |-> cfg[3],
        state |-> "PLAYING", mines_placed |-> FALSE,
        cells |-> [p \in (0 .. cfg[1] - 1) \X (0 .. cfg[2] - 1) |-> NewCell]]

(***************************************************************************)
(* Board._get_neighbors_coords: the in-bounds neighbours of (r, c), in the *)
(* order of the two nested loops over dr and dc.                           *)
(***************************************************************************)
InBounds(b, r, c) == 0 <= r /\ r < b.rows /\ 0 <= c /\ c < b.cols

get_neighbors_coords(b, r, c) ==
    LET around == [k \in 1 .. 9 |-> <<r + ((k - 1) \div 3) - 1, c + ((k - 1) % 3) - 1>>]
    IN SelectSeq(around, LAMBDA p : p # <<r, c>> /\ InBounds(b, p[1], p[2]))

Neighbors(b, p) == Range(get_neighbors_coords(b, p[1], p[2]))

(***************************************************************************)
(* Board._place_mines, given the outcome of random.sample                  *)
(***************************************************************************)
(* Mutant: the safe zone is the clicked cell alone. *)
SafeCoords_ClickOnly(b, safe_r, safe_c) == {<<safe_r, safe_c>>}

SafeCoords(b, safe_r, safe_c) ==
    Range(get_neighbors_coords(b, safe_r, safe_c)) \cup {<<safe_r, safe_c>>}

MineCandidates(b, safe_r, safe_c) ==
    {p \in AllCoords(b) : p \notin SafeCoords(b, safe_r, safe_c)}

ClampedMines(b, safe_r, safe_c) ==
    IF b.mines > Cardinality(MineCandidates(b, safe_r, safe_c))
    THEN Cardinality(MineCandidates(b, safe_r, safe_c))
    ELSE b.mines

(* Every outcome random.sample(mine_candidates, self.mines) can have. *)
Samples(b, safe_r, safe_c) ==
    {L \in SUBSET MineCandidates(b, safe_r, safe_c) :
        Cardinality(L) = ClampedMines(b, safe_r, safe_c)}

(* Mutant: the placement is not recorded, so the next reveal places again. *)
place_mines_NotMarked(b, safe_r, safe_c, mine_locations) ==
    [b EXCEPT !.mines = ClampedMines(b, safe_r, safe_c),
              !.cells = [p \in DOMAIN b.cells |->
                            IF p \in mine_locations
                            THEN [b.cells[p] EXCEPT !.is_mine = TRUE]
                            ELSE b.cells[p]]]

(* Mutant: the mines field keeps the configured count when the pool is smaller. *)
place_mines_KeepsCount(b, safe_r, safe_c, mine_locations) ==
    [b EXCEPT !.cells = [p \in DOMAIN b.cells |->
                            IF p \in mine_locations
                            THEN [b.cells[p] EXCEPT !.is_mine = TRUE]
                            ELSE b.cells[p]],
              !.mines_placed = TRUE]

place_mines(b, safe_r, safe_c, mine_locations) ==
    [b EXCEPT !.mines = ClampedMines(b, safe_r, safe_c),
              !.cells = [p \in DOMAIN b.cells |->
                            IF p \in mine_locations
                            THEN [b.cells[p] EXCEPT !.is_mine = TRUE]
                            ELSE b.cells[p]],
              !.mines_placed = TRUE]

(***************************************************************************)
(* Board._calculate_neighbor_counts                                        *)
(***************************************************************************)
MineCount(b, p) == Cardinality({n \in Neighbors(b, p) : b.cells[n].is_mine})

(* Mutant: the count is stored in the mine cells as well. *)
calculate_neighbor_counts_AllCells(b) ==
    [b EXCEPT !.cells = [p \in DOMAIN b.cells |->
                            [b.cells[p] EXCEPT !.neighbor_mines = MineCount(b, p)]]]

calculate_neighbor_counts(b) ==
    [b EXCEPT !.cells = [p \in DOMAIN b.cells |->
                            IF ~b.cells[p].is_mine
                            THEN [b.cells[p] EXCEPT !.neighbor_mines = MineCount(b, p)]
                            ELSE b.cells[p]]]

(***************************************************************************)
(* Board._flood_reveal: the breadth-first cascade.  FloodNeighbors is the  *)
(* inner loop over the neighbours of the popped coordinate, flood_loop the *)
(* while loop over the queue.                                              *)
(***************************************************************************)
(* Mutant: the cascade goes through flagged cells. *)
FloodSkips_IgnoresFlag(cell) == cell.is_revealed

FloodSkips(cell) == cell.is_revealed \/ cell.is_flagged

(* Mutant: a numbered cell propagates the cascade like a zero cell. *)
RECURSIVE FloodNeighbors_PastRim(_, _, _)
FloodNeighbors_PastRim(cs, queue, nbrs) ==
    IF nbrs = <<>> THEN [cells |-> cs, queue |-> queue]
    ELSE LET n == Head(nbrs)
         IN IF FloodSkips(cs[n])
            THEN FloodNeighbors_PastRim(cs, queue, Tail(nbrs))
            ELSE FloodNeighbors_PastRim([cs EXCEPT ![n].is_revealed = TRUE],
                                        Append(queue, n), Tail(nbrs))

RECURSIVE FloodNeighbors(_, _, _)
FloodNeighbors(cs, queue, nbrs) ==
    IF nbrs = <<>> THEN [cells |-> cs, queue |-> queue]
    ELSE LET n == Head(nbrs)
         IN IF FloodSkips(cs[n])
            THEN FloodNeighbors(cs, queue, Tail(nbrs))
            ELSE FloodNeighbors([cs EXCEPT ![n].is_revealed = TRUE],
                                IF cs[n].neighbor_mines = 0
                                THEN Append(queue, n) ELSE queue,
                                Tail(nbrs))

RECURSIVE flood_loop(_, _, _)
flood_loop(b, cs, queue) ==
    IF queue = <<>> THEN cs
    ELSE LET popped == Head(queue)
             after == FloodNeighbors(cs, Tail(queue),
                                     get_neighbors_coords(b, popped[1], popped[2]))
         IN flood_loop(b, after.cells, after.queue)

flood_reveal(b, start_r, start_c) ==
    [b EXCEPT !.cells = flood_loop(b, b.cells, << <<start_r, start_c>> >>)]

(* The coordinates appended to the work queue from the moment the loop     *)
(* holds queue, in the order of the appends.                               *)
RECURSIVE flood_enqueued(_, _, _)
flood_enqueued(b, cs, queue) ==
    IF queue = <<>> THEN <<>>
    ELSE LET popped == Head(queue)
             after == FloodNeighbors(cs, Tail(queue),
                                     get_neighbors_coords(b, popped[1], popped[2]))
         IN SubSeq(after.queue, Len(queue), Len(after.queue))
                \o flood_enqueued(b, after.cells, after.queue)

(***************************************************************************)
(* Board._check_win_condition                                              *)
(***************************************************************************)
HiddenNonMines(b) == {p \in DOMAIN b.cells : ~b.cells[p].is_revealed /\ ~b.cells[p].is_mine}

(* Mutant: every hidden cell counts, mines included. *)
check_win_condition_AllHidden(b) ==
    IF Cardinality({p \in DOMAIN b.cells : ~b.cells[p].is_revealed}) = 0
    THEN [b EXCEPT !.state = "WON"] ELSE b

check_win_condition(b) ==
    IF Cardinality(HiddenNonMines(b)) = 0 THEN [b EXCEPT !.state = "WON"] ELSE b

(***************************************************************************)
(* Board.reveal.  mine_locations is the outcome of random.sample, used     *)
(* only when the mines are not placed yet.                                 *)
(***************************************************************************)
(* Mutant: reveal does not look at the game state. *)
RevealArgsValid_NoStateCheck(b, r, c) == InBounds(b, r, c)

RevealArgsValid(b, r, c) == InBounds(b, r, c) /\ b.state = "PLAYING"

(* Mutant: a flag does not protect the cell from reveal. *)
RevealCellBlocked_IgnoresFlag(cell) == cell.is_revealed

RevealCellBlocked(cell) == cell.is_revealed \/ cell.is_flagged

(* Mutant: the clicked cell is revealed without any cascade. *)
RevealSafeCell_NoCascade(b, r, c) ==
    check_win_condition([b EXCEPT !.cells[<<r, c>>].is_revealed = TRUE])

RevealSafeCell(b, r, c) ==
    LET b1 == [b EXCEPT !.cells[<<r, c>>].is_revealed = TRUE]
        b2 == IF b1.cells[<<r, c>>].neighbor_mines = 0 THEN flood_reveal(b1, r, c) ELSE b1
    IN check_win_condition(b2)

(* Mutant: the origin is marked as revealed after the cascade, not before. *)
reveal_enqueued_MarksLate(b, r, c) ==
    IF b.cells[<<r, c>>].neighbor_mines = 0
    THEN << <<r, c>> >> \o flood_enqueued(b, b.cells, << <<r, c>> >>)
    ELSE <<>>

(* Every entry the work queue receives in a reveal of the safe cell (r, c):*)
(* the origin, if its count is 0, then the appends of the cascade.         *)
reveal_enqueued(b, r, c) ==
    LET b1 == [b EXCEPT !.cells[<<r, c>>].is_revealed = TRUE]
    IN IF b1.cells[<<r, c>>].neighbor_mines = 0
       THEN << <<r, c>> >> \o flood_enqueued(b1, b1.cells, << <<r, c>> >>)
       ELSE <<>>

(* Mutant: the mine check does not return, the cascade runs from the mine. *)
RevealMine_Cascades(b, r, c) ==
    LET b1 == [b EXCEPT !.cells[<<r, c>>].is_revealed = TRUE, !.state = "LOST"]
    IN IF b1.cells[<<r, c>>].neighbor_mines = 0 THEN flood_reveal(b1, r, c) ELSE b1

(* Mutant: losing hides the board again except for the mine that was hit. *)
RevealMine_HidesRest(b, r, c) ==
    [b EXCEPT !.cells = [p \in DOMAIN b.cells |->
                            [b.cells[p] EXCEPT !.is_revealed = (p = <<r, c>>)]],
              !.state = "LOST"]

RevealMine(b, r, c) ==
    [b EXCEPT !.cells[<<r, c>>].is_revealed = TRUE, !.state = "LOST"]

reveal(b, r, c, mine_locations) ==
    IF ~RevealArgsValid(b, r, c) THEN b
    ELSE IF RevealCellBlocked(b.cells[<<r, c>>]) THEN b
    ELSE LET b0 == IF ~b.mines_placed
                   THEN calculate_neighbor_counts(place_mines(b, r, c, mine_locations))
                   ELSE b
         IN IF b0.cells[<<r, c>>].is_mine
            THEN RevealMine(b0, r, c)
            ELSE RevealSafeCell(b0, r, c)

(* The outcomes random.sample can have in a call reveal(r, c). *)
RevealSamples(b, r, c) ==
    IF RevealArgsValid(b, r, c) /\ ~RevealCellBlocked(b.cells[<<r, c>>]) /\ ~b.mines_placed
    THEN Samples(b, r, c)
    ELSE {{}}

(***************************************************************************)
(* Board.flag                                                              *)
(***************************************************************************)
FlagArgsValid(b, r, c) == b.state = "PLAYING" /\ InBounds(b, r, c)

(* Mutant: the flag of a revealed cell is toggled as well. *)
flag_IgnoresRevealed(b, r, c) ==
    IF FlagArgsValid(b, r, c)
    THEN [b EXCEPT !.cells[<<r, c>>].is_flagged = ~b.cells[<<r, c>>].is_flagged]
    ELSE b

(* Mutant: flag sets the flag and never clears it. *)
flag_SetOnly(b, r, c) ==
    IF FlagArgsValid(b, r, c)
    THEN IF ~b.cells[<<r, c>>].is_revealed
         THEN [b EXCEPT !.cells[<<r, c>>].is_flagged = TRUE]
         ELSE b
    ELSE b

flag(b, r, c) ==
    IF FlagArgsValid(b, r, c)
    THEN IF ~b.cells[<<r, c>>].is_revealed
         THEN [b EXCEPT !.cells[<<r, c>>].is_flagged = ~b.cells[<<r, c>>].is_flagged]
         ELSE b
    ELSE b

(***************************************************************************)
(* The iteration order of a Python set of coordinates.  The code iterates  *)
(* hidden_coords and diff in the set's own order; the model lets the order *)
(* be any of IterOrders: row-major ascending or descending.                *)
(***************************************************************************)
IterOrders == {"asc", "desc"}

CoordLess(p, q) == p[1] < q[1] \/ (p[1] = q[1] /\ p[2] < q[2])

RECURSIVE IterSet(_, _)
IterSet(S, order) ==
    IF S = {} THEN <<>>
    ELSE LET first == CHOOSE x \in S : \A y \in S \ {x} :
                          IF order = "asc" THEN CoordLess(x, y) ELSE CoordLess(y, x)
         IN <<first>> \o IterSet(S \ {first}, order)

RowMajor(b) == [k \in 1 .. b.rows * b.cols |-> <<(k - 1) \div b.cols, (k - 1) % b.cols>>]

(***************************************************************************)
(* core/frontier.py: iter_frontier_cells and collect_frontier              *)
(***************************************************************************)
ViewHidden(b, p) ==
    {n \in Neighbors(b, p) : ~b.cells[n].is_flagged /\ ~b.cells[n].is_revealed}

ViewFlagged(b, p) == Cardinality({n \in Neighbors(b, p) : b.cells[n].is_flagged})

FrontierCellView(b, p) ==
    [row |-> p[1], col |-> p[2],
     hidden_neighbors |-> ViewHidden(b, p),
     flagged_neighbors |-> ViewFlagged(b, p),
     remaining_mines |-> b.cells[p].neighbor_mines - ViewFlagged(b, p)]

(* Mutant: a numbered cell with no hidden neighbour left is yielded too. *)
IsFrontierCell_KeepsClosed(b, p) ==
    ~(~b.cells[p].is_revealed \/ b.cells[p].neighbor_mines <= 0)

IsFrontierCell(b, p) ==
    /\ ~(~b.cells[p].is_revealed \/ b.cells[p].neighbor_mines <= 0)
    /\ ViewHidden(b, p) # {}

collect_frontier(b) ==
    LET coords == SelectSeq(RowMajor(b), LAMBDA p : IsFrontierCell(b, p))
    IN [i \in DOMAIN coords |-> FrontierCellView(b, coords[i])]

(***************************************************************************)
(* MinemindSolver._get_frontier_cells                                      *)
(***************************************************************************)
HasHiddenNeighbor(b, p) ==
    \E n \in Neighbors(b, p) : ~b.cells[n].is_revealed /\ ~b.cells[n].is_flagged

get_frontier_cells(b) ==
    SelectSeq(RowMajor(b),
              LAMBDA p : b.cells[p].is_revealed /\ b.cells[p].neighbor_mines > 0
                         /\ HasHiddenNeighbor(b, p))

(***************************************************************************)
(* MinemindSolver.solve_step.  acc holds certain_moves, seen_moves and     *)
(* frontier_data; a move is the tuple (row, col, action).                  *)
(***************************************************************************)
(* Mutant: a move is appended whether seen before or not. *)
RECURSIVE EmitMoves_NoSeen(_, _, _)
EmitMoves_NoSeen(acc, targets, action) ==
    IF targets = <<>> THEN acc
    ELSE LET move == <<Head(targets)[1], Head(targets)[2], action>>
         IN EmitMoves_NoSeen([acc EXCEPT !.seen_moves = @ \cup {move},
                                         !.certain_moves = Append(@, move)],
                             Tail(targets), action)

(* Mutant: only the first target of the iteration is emitted. *)
EmitMoves_FirstOnly(acc, targets, action) ==
    IF targets = <<>> THEN acc
    ELSE LET move == <<Head(targets)[1], Head(targets)[2], action>>
         IN IF move \notin acc.seen_moves
            THEN [acc EXCEPT !.seen_moves = @ \cup {move},
                             !.certain_moves = Append(@, move)]
            ELSE acc

RECURSIVE EmitMoves(_, _, _)
EmitMoves(acc, targets, action) ==
    IF targets = <<>> THEN acc
    ELSE LET move == <<Head(targets)[1], Head(targets)[2], action>>
         IN EmitMoves(IF move \notin acc.seen_moves
                      THEN [acc EXCEPT !.seen_moves = @ \cup {move},
                                       !.certain_moves = Append(@, move)]
                      ELSE acc,
                      Tail(targets), action)

(* Mutant: a flagged neighbour counts as hidden too. *)
hidden_coords_IgnoresFlags(b, p) == {n \in Neighbors(b, p) : ~b.cells[n].is_revealed}

(* Mutant: a revealed neighbour counts as hidden too. *)
hidden_coords_IgnoresRevealed(b, p) == {n \in Neighbors(b, p) : ~b.cells[n].is_flagged}

hidden_coords(b, p) ==
    {n \in Neighbors(b, p) : ~b.cells[n].is_flagged /\ ~b.cells[n].is_revealed}

(* Mutant: the flags around a cell are not counted. *)
flagged_count_Ignored(b, p) == 0

flagged_count(b, p) == Cardinality({n \in Neighbors(b, p) : b.cells[n].is_flagged})

(* Mutant: flags as soon as a mine remains, however many cells are hidden. *)
TrivialFlagRule_AnyRemaining(remaining_mines, hidden) == remaining_mines > 0

(* Mutant: a single remaining mine is not flagged. *)
TrivialFlagRule_MoreThanOne(remaining_mines, hidden) ==
    remaining_mines = Cardinality(hidden) /\ remaining_mines > 1

TrivialFlagRule(remaining_mines, hidden) ==
    remaining_mines = Cardinality(hidden) /\ remaining_mines > 0

(* Mutant: a cell with more flags than mines around it reveals the rest too. *)
TrivialRevealRule_AtLeast(flagged, neighbor_mines) == flagged >= neighbor_mines

(* Mutant: reveals while flags are still missing. *)
TrivialRevealRule_AtMost(flagged, neighbor_mines) == flagged <= neighbor_mines

TrivialRevealRule(flagged, neighbor_mines) == flagged = neighbor_mines

FrontierCellStep(b, acc, p, order) ==
    LET hidden == hidden_coords(b, p)
        flagged == flagged_count(b, p)
        remaining_mines == b.cells[p].neighbor_mines - flagged
        a1 == IF TrivialFlagRule(remaining_mines, hidden)
              THEN EmitMoves(acc, IterSet(hidden, order), "FLAG") ELSE acc
        a2 == IF TrivialRevealRule(flagged, b.cells[p].neighbor_mines)
              THEN EmitMoves(a1, IterSet(hidden, order), "REVEAL") ELSE a1
    IN IF hidden = {} THEN acc
       ELSE [a2 EXCEPT !.frontier_data =
                Append(@, [r |-> p[1], c |-> p[2], mines_needed |-> remaining_mines,
                           hidden_coords |-> hidden])]

RECURSIVE FrontierLoop(_, _, _, _)
FrontierLoop(b, acc, frontier, order) ==
    IF frontier = <<>> THEN acc
    ELSE FrontierLoop(b, FrontierCellStep(b, acc, Head(frontier), order),
                      Tail(frontier), order)

(***************************************************************************)
(* MinemindSolver._find_subset_deductions.  SubsetPairStep is the body of  *)
(* the inner loop for one ordered pair (A, B) of frontier_data entries.    *)
(***************************************************************************)
SubsetTargets(b, diff, order) ==
    SelectSeq(IterSet(diff, order),
              LAMBDA p : ~(b.cells[p].is_revealed \/ b.cells[p].is_flagged))

(* Mutant: a pair with no extra mine is skipped like an inconsistent one. *)
SubsetPairStep_SkipsEqual(b, acc, A, B, order) ==
    IF B.hidden_coords = {} THEN acc
    ELSE IF ~(A.hidden_coords \subseteq B.hidden_coords) THEN acc
    ELSE LET diff == B.hidden_coords \ A.hidden_coords
             extra_mines == B.mines_needed - A.mines_needed
         IN IF diff = {} THEN acc
            ELSE IF extra_mines <= 0 THEN acc
            ELSE IF extra_mines = Cardinality(diff)
                 THEN EmitMoves(acc, SubsetTargets(b, diff, order), "FLAG")
            ELSE acc

(* Mutant: the extra mines are compared with all of H_B, not with the diff. *)
SubsetPairStep_WholeSet(b, acc, A, B, order) ==
    IF B.hidden_coords = {} THEN acc
    ELSE IF ~(A.hidden_coords \subseteq B.hidden_coords) THEN acc
    ELSE LET diff == B.hidden_coords \ A.hidden_coords
             extra_mines == B.mines_needed - A.mines_needed
         IN IF diff = {} THEN acc
            ELSE IF extra_mines < 0 THEN acc
            ELSE IF extra_mines = 0
                 THEN EmitMoves(acc, SubsetTargets(b, diff, order), "REVEAL")
            ELSE IF extra_mines = Cardinality(B.hidden_coords)
                 THEN EmitMoves(acc, SubsetTargets(b, diff, order), "FLAG")
            ELSE acc

(* Mutant: the pair is used as soon as H_A and H_B overlap. *)
SubsetPairStep_Overlap(b, acc, A, B, order) ==
    IF B.hidden_coords = {} THEN acc
    ELSE IF A.hidden_coords \cap B.hidden_coords = {} THEN acc
    ELSE LET diff == B.hidden_coords \ A.hidden_coords
             extra_mines == B.mines_needed - A.mines_needed
         IN IF diff = {} THEN acc
            ELSE IF extra_mines < 0 THEN acc
            ELSE IF extra_mines = 0
                 THEN EmitMoves(acc, SubsetTargets(b, diff, order), "REVEAL")
            ELSE IF extra_mines = Cardinality(diff)
                 THEN EmitMoves(acc, SubsetTargets(b, diff, order), "FLAG")
            ELSE acc

SubsetPairStep(b, acc, A, B, order) ==
    IF B.hidden_coords = {} THEN acc
    ELSE IF ~(A.hidden_coords \subseteq B.hidden_coords) THEN acc
    ELSE LET diff == B.hidden_coords \ A.hidden_coords
             extra_mines == B.mines_needed - A.mines_needed
         IN IF diff = {} THEN acc
            ELSE IF extra_mines < 0 THEN acc
            ELSE IF extra_mines = 0
                 THEN EmitMoves(acc, SubsetTargets(b, diff, order), "REVEAL")
            ELSE IF extra_mines = Cardinality(diff)
                 THEN EmitMoves(acc, SubsetTargets(b, diff, order), "FLAG")
            ELSE acc

(* The two nested loops, over k = (i - 1) * n + (j - 1). *)
RECURSIVE SubsetLoop(_, _, _, _)
SubsetLoop(b, acc, k, order) ==
    LET n == Len(acc.frontier_data)
        i == (k \div n) + 1
        j == (k % n) + 1
    IN IF k >= n * n THEN acc
       ELSE IF i = j \/ acc.frontier_data[i].hidden_coords = {}
            THEN SubsetLoop(b, acc, k + 1, order)
            ELSE SubsetLoop(b, SubsetPairStep(b, acc, acc.frontier_data[i],
                                              acc.frontier_data[j], order),
                            k + 1, order)

(* Mutant: the subset rule is skipped once a trivial rule has fired. *)
find_subset_deductions_EarlyExit(b, acc, order) ==
    IF Len(acc.frontier_data) < 2 \/ acc.certain_moves # <<>>
    THEN acc ELSE SubsetLoop(b, acc, 0, order)

find_subset_deductions(b, acc, order) ==
    IF Len(acc.frontier_data) < 2 THEN acc ELSE SubsetLoop(b, acc, 0, order)

solve_step(b, order) ==
    LET start == [certain_moves |-> <<>>, seen_moves |-> {}, frontier_data |-> <<>>]
        trivial == FrontierLoop(b, start, get_frontier_cells(b), order)
    IN find_subset_deductions(b, trivial, order).certain_moves

(***************************************************************************)
(* core/rules.py: apply_trivial_rules and apply_subset_rules, run on a list *)
(* of frontier views.  acc holds the lists moves and seen of one call.     *)
(***************************************************************************)
RECURSIVE RuleEmit(_, _, _)
RuleEmit(acc, targets, action) ==
    IF targets = <<>> THEN acc
    ELSE LET move == <<Head(targets)[1], Head(targets)[2], action>>
         IN RuleEmit(IF move \notin acc.seen
                     THEN [moves |-> Append(acc.moves, move), seen |-> acc.seen \cup {move}]
                     ELSE acc,
                     Tail(targets), action)

TrivialRulesStep(acc, fv, order) ==
    LET hidden == fv.hidden_neighbors
        a1 == IF fv.remaining_mines = Cardinality(hidden) /\ fv.remaining_mines > 0
              THEN RuleEmit(acc, IterSet(hidden, order), "FLAG") ELSE acc
        a2 == IF fv.remaining_mines = 0
              THEN RuleEmit(a1, IterSet(hidden, order), "REVEAL") ELSE a1
    IN IF hidden = {} THEN acc ELSE a2

RECURSIVE TrivialRulesLoop(_, _, _)
TrivialRulesLoop(acc, frontier, order) ==
    IF frontier = <<>> THEN acc
    ELSE TrivialRulesLoop(TrivialRulesStep(acc, Head(frontier), order),
                          Tail(frontier), order)

apply_trivial_rules(frontier, order) ==
    TrivialRulesLoop([moves |-> <<>>, seen |-> {}], frontier, order).moves

(* One turn of the loop over (smaller, larger, m_small, m_large). *)
SubsetDirection(acc, smaller, larger, m_small, m_large, order) ==
    IF smaller = {} \/ smaller = larger THEN acc
    ELSE IF ~(smaller \subseteq larger) THEN acc
    ELSE LET diff == larger \ smaller
             extra_mines == m_large - m_small
         IN IF diff = {} THEN acc
            ELSE LET a1 == IF m_small = m_large
                           THEN RuleEmit(acc, IterSet(diff, order), "REVEAL") ELSE acc
                 IN IF extra_mines = Cardinality(diff) /\ extra_mines > 0
                    THEN RuleEmit(a1, IterSet(diff, order), "FLAG") ELSE a1

(* Mutant: only the direction H_A inside H_B is examined. *)
SubsetRulesPair_OneDirection(acc, A, B, order) ==
    IF B.hidden_neighbors = {} THEN acc
    ELSE SubsetDirection(acc, A.hidden_neighbors, B.hidden_neighbors,
                         A.remaining_mines, B.remaining_mines, order)

SubsetRulesPair(acc, A, B, order) ==
    IF B.hidden_neighbors = {} THEN acc
    ELSE SubsetDirection(
             SubsetDirection(acc, A.hidden_neighbors, B.hidden_neighbors,
                             A.remaining_mines, B.remaining_mines, order),
             B.hidden_neighbors, A.hidden_neighbors,
             B.remaining_mines, A.remaining_mines, order)

(* The loops over i in range(n) and j in range(i + 1, n), 1-based here. *)
RECURSIVE SubsetRulesLoop(_, _, _, _, _)
SubsetRulesLoop(acc, frontier_list, i, j, order) ==
    LET n == Len(frontier_list)
    IN IF i > n THEN acc
       ELSE IF frontier_list[i].hidden_neighbors = {} \/ j > n
            THEN SubsetRulesLoop(acc, frontier_list, i + 1, i + 2, order)
            ELSE SubsetRulesLoop(SubsetRulesPair(acc, frontier_list[i], frontier_list[j], order),
                                 frontier_list, i, j + 1, order)

apply_subset_rules(frontier, order) ==
    SubsetRulesLoop([moves |-> <<>>, seen |-> {}], frontier, 1, 2, order).moves

(***************************************************************************)
(* MinemindShell.do_solve: the batch is applied in list order, and stops   *)
(* as soon as the game is over.                                            *)
(***************************************************************************)
ApplyMove(b, move, mine_locations) ==
    IF move[3] = "FLAG" THEN flag(b, move[1], move[2])
    ELSE IF move[3] = "REVEAL" THEN reveal(b, move[1], move[2], mine_locations)
    ELSE b

RECURSIVE ApplyMoves(_, _, _)
ApplyMoves(b, moves, mine_locations) ==
    IF moves = <<>> THEN b
    ELSE IF b.state # "PLAYING" THEN b
    ELSE ApplyMoves(ApplyMove(b, Head(moves), mine_locations), Tail(moves), mine_locations)

do_solve(b, order, mine_locations) ==
    IF b.state # "PLAYING" THEN b
    ELSE LET moves == solve_step(b, order)
         IN IF moves = <<>> THEN b ELSE ApplyMoves(b, moves, mine_locations)

(* Mutant: the loop has no break, every move of the list is applied. *)
AppliedMoves_NoBreak(b, moves, mine_locations) == moves

(* The moves do_solve applies (one "-> FLAG at" or "-> REVEAL at" line is   *)
(* printed for each), in the order of their application.                   *)
RECURSIVE AppliedMoves(_, _, _)
AppliedMoves(b, moves, mine_locations) ==
    IF moves = <<>> THEN <<>>
    ELSE IF b.state # "PLAYING" THEN <<>>
    ELSE <<Head(moves)>> \o AppliedMoves(ApplyMove(b, Head(moves), mine_locations),
                                         Tail(moves), mine_locations)

do_solve_applied(b, order, mine_locations) ==
    IF b.state # "PLAYING" THEN <<>>
    ELSE AppliedMoves(b, solve_step(b, order), mine_locations)

(* The outcomes random.sample can have within a batch: a batch reveals only *)
(* when a numbered cell is revealed, so a reveal of it that still has to    *)
(* place the mines is the first REVEAL move of the batch.                   *)
SolveSamples(b, order) ==
    LET reveals == SelectSeq(solve_step(b, order), LAMBDA m : m[3] = "REVEAL")
    IN IF b.mines_placed \/ b.state # "PLAYING" \/ reveals = <<>>
       THEN {{}}
       ELSE Samples(b, reveals[1][1], reveals[1][2])

(***************************************************************************)
(* render.py: _get_cell_char, and the character display_board prints for   *)
(* the cell p of a board (show_mines is board.state != "PLAYING").  str()  *)
(* of a count is its decimal digit; a cell has at most 8 neighbours.       *)
(***************************************************************************)
DigitChars == <<"1", "2", "3", "4", "5", "6", "7", "8">>

(* Mutant: a flag is drawn as 'F' whether it was right or wrong. *)
get_cell_char_NoWrongFlag(cell, board_state, show_mines) ==
    IF cell.is_revealed
    THEN IF cell.is_mine THEN "M"
         ELSE IF cell.neighbor_mines > 0 THEN DigitChars[cell.neighbor_mines] ELSE "."
    ELSE IF cell.is_flagged THEN "F"
    ELSE IF show_mines /\ cell.is_mine THEN "M"
    ELSE "#"

get_cell_char(cell, board_state, show_mines) ==
    IF cell.is_revealed
    THEN IF cell.is_mine THEN "M"
         ELSE IF cell.neighbor_mines > 0 THEN DigitChars[cell.neighbor_mines] ELSE "."
    ELSE IF cell.is_flagged
         THEN IF show_mines /\ ~cell.is_mine THEN "X" ELSE "F"
    ELSE IF show_mines /\ cell.is_mine THEN "M"
    ELSE "#"

display_char(b, p) == get_cell_char(b.cells[p], b.state, b.state # "PLAYING")

(***************************************************************************)
(* The state machine                                                       *)
(***************************************************************************)
board == [rows |-> rows, cols |-> cols, mines |-> mines, state |-> state,
          mines_placed |-> mines_placed, cells |-> cells]

SetBoard(b) ==
    /\ rows' = b.rows
    /\ cols' = b.cols
    /\ mines' = b.mines
    /\ state' = b.state
    /\ mines_placed' = b.mines_placed
    /\ cells' = b.cells

(* Arguments of the calls: every in-bounds coordinate, and coordinates beyond *)
(* each of the four edges, negative ones included.                          *)
CallArgs ==
    AllCoords(board) \cup {<<-1, 0>>, <<0, -1>>, <<rows, 0>>, <<0, cols>>, <<-1, -1>>}

MinesArgs == {None} \cup {Some(m) : m \in -1 .. MaxMines}

Flagged(b) == {p \in DOMAIN b.cells : b.cells[p].is_flagged}

Revealed(b) == {p \in DOMAIN b.cells : b.cells[p].is_revealed}

Mines(b) == {p \in DOMAIN b.cells : b.cells[p].is_mine}

Init ==
    \E rows_arg \in 1 .. MaxRows, cols_arg \in 1 .. MaxCols, mines_arg \in MinesArgs :
        /\ rows_arg * cols_arg <= MaxCells
        /\ LET b == NewBoard(Some(rows_arg), Some(cols_arg), mines_arg, "custom")
           IN /\ rows = b.rows
              /\ cols = b.cols
              /\ mines = b.mines
              /\ state = b.state
              /\ mines_placed = b.mines_placed
              /\ cells = b.cells

Reveal(r, c) ==
    \E mine_locations \in RevealSamples(board, r, c) :
        SetBoard(reveal(board, r, c, mine_locations))

(* The user sets at most MaxFlags flags; clearing a flag is always possible. *)
FlagWithinBound(r, c) ==
    IF InBounds(board, r, c)
    THEN cells[<<r, c>>].is_flagged \/ Cardinality(Flagged(board)) < MaxFlags
    ELSE TRUE

Flag(r, c) ==
    /\ FlagWithinBound(r, c)
    /\ SetBoard(flag(board, r, c))

DoSolve(order) ==
    \E mine_locations \in SolveSamples(board, order) :
        SetBoard(do_solve(board, order, mine_locations))

Next ==
    \/ \E p \in CallArgs : Reveal(p[1], p[2])
    \/ \E p \in CallArgs : Flag(p[1], p[2])
    \/ \E order \in IterOrders : DoSolve(order)

Spec == Init /\ [][Next]_vars

(***************************************************************************)
(* The same machine started from any call of the constructor: rows, cols   *)
(* and mines absent, non-positive or positive, and any difficulty string.  *)
(* A board with more than MaxCells cells is constructed and not played.    *)
(***************************************************************************)
RowsArgs == {None} \cup {Some(r) : r \in -1 .. MaxRows}

ColsArgs == {None} \cup {Some(c) : c \in -1 .. MaxCols}

DifficultyArgs == DifficultyNames \cup {"custom", "hard"}

InitAnyConfig ==
    \E rows_arg \in RowsArgs, cols_arg \in ColsArgs, mines_arg \in MinesArgs,
       difficulty \in DifficultyArgs :
        LET b == NewBoard(rows_arg, cols_arg, mines_arg, difficulty)
        IN /\ rows = b.rows
           /\ cols = b.cols
           /\ mines = b.mines
           /\ state = b.state
           /\ mines_placed = b.mines_placed
           /\ cells = b.cells

Playable == rows * cols <= MaxCells

PlayNext == Playable /\ Next

AnyConfigSpec == InitAnyConfig /\ [][PlayNext]_vars

(***************************************************************************)
(* Vocabulary of the properties, stated on the grid itself and not through *)
(* the operators of the code.                                              *)
(***************************************************************************)
Adjacent(p, q) ==
    /\ p # q
    /\ p[1] - q[1] \in {-1, 0, 1}
    /\ p[2] - q[2] \in {-1, 0, 1}

Coords == DOMAIN cells

IsMine(p) == cells[p].is_mine

IsRevealed(p) == cells[p].is_revealed

IsFlagged(p) == cells[p].is_flagged

(* The moves one solve_step call returns, as a set. *)
MoveSet(order) == Range(solve_step(board, order))

(* The frontier views of the current board. *)
Views == Range(collect_frontier(board))

(***************************************************************************)
(* C1.  Safe first click: after the first successful reveal(r, c), the one *)
(* that places the mines, neither (r, c) nor any in-bounds neighbour of it *)
(* is a mine, whatever mines random.sample chose.                          *)
(***************************************************************************)
C1_SafeFirstClick ==
    [][(~mines_placed /\ mines_placed')
       => \A p \in CallArgs :
              Reveal(p[1], p[2])
              => \A q \in Coords : (q = p \/ Adjacent(p, q)) => ~cells'[q].is_mine]_vars

(* Mines are placed on a 2x4 board after a first click in the corner. *)
C1_Witness ==
    /\ mines_placed /\ rows = 2 /\ cols = 4
    /\ Cardinality(Mines(board)) = 2
    /\ IsRevealed(<<0, 0>>) /\ cells[<<0, 0>>].neighbor_mines = 0

(***************************************************************************)
(* C2.  Win/lose exclusivity: in every reachable state, state is WON iff   *)
(* every non-mine cell is revealed, and LOST iff some mine is revealed.    *)
(* So the state is still PLAYING while a safe cell is hidden and no mine   *)
(* is revealed, and turns WON with the last safe cell, flags or no flags.  *)
(***************************************************************************)
C2_WinLoseExclusive ==
    /\ state \in {"PLAYING", "WON", "LOST"}
    /\ state = "WON" <=> \A p \in Coords : ~IsMine(p) => IsRevealed(p)
    /\ state = "LOST" <=> \E p \in Coords : IsMine(p) /\ IsRevealed(p)

(* A game won with two mines on the board and not one flag. *)
C2_Witness ==
    /\ state = "WON"
    /\ Cardinality(Mines(board)) = 2
    /\ Flagged(board) = {}

(***************************************************************************)
(* C3.  Terminal states are absorbing: no step changes state once it is    *)
(* WON or LOST, and the only changes of state are PLAYING -> WON and       *)
(* PLAYING -> LOST.                                                        *)
(***************************************************************************)
C3_TerminalAbsorbing ==
    [][/\ state # "PLAYING" => state' = state
       /\ state' # state => state = "PLAYING" /\ state' \in {"WON", "LOST"}]_vars

(* A lost game in which a reveal or a flag would still find a hidden safe *)
(* cell to act on.                                                        *)
C3_Witness ==
    /\ state = "LOST"
    /\ \E p \in Coords : ~IsMine(p) /\ ~IsRevealed(p) /\ ~IsFlagged(p)
    /\ \E p \in Coords : ~IsRevealed(p) /\ IsFlagged(p)

(***************************************************************************)
(* C4.  Solver soundness against the visible constraints: in every         *)
(* assignment of mines to the hidden unflagged cells that gives each       *)
(* frontier cell exactly remaining_mines mines among its hidden            *)
(* neighbours, every FLAG target is a mine and every REVEAL target is not. *)
(***************************************************************************)
ConsistentAssignments ==
    LET views == Views
        undecided == {p \in Coords : ~IsRevealed(p) /\ ~IsFlagged(p)}
    IN {X \in SUBSET undecided :
           \A v \in views : Cardinality(X \cap v.hidden_neighbors) = v.remaining_mines}

C4_SoundForVisibleConstraints ==
    LET assignments == ConsistentAssignments
    IN \A order \in IterOrders : \A m \in MoveSet(order) : \A X \in assignments :
           /\ m[3] = "FLAG" => <<m[1], m[2]>> \in X
           /\ m[3] = "REVEAL" => <<m[1], m[2]>> \notin X

(* A board whose constraints leave the mines around some frontier cell open *)
(* (two consistent assignments differ there) and on which the solver still *)
(* finds a move.                                                           *)
C4_Witness ==
    /\ state = "PLAYING"
    /\ MoveSet("asc") # {}
    /\ \E X, Y \in ConsistentAssignments : \E v \in Views :
          X \cap v.hidden_neighbors # Y \cap v.hidden_neighbors

(***************************************************************************)
(* C5.  The solver reports only moves that are certain on the real board:  *)
(* in every reachable PLAYING state every REVEAL move targets a cell that  *)
(* is not a mine and every FLAG move a mine, and a do_solve batch never    *)
(* ends in LOST.  C5_Original is the claim as made; C5_CertainUnderCorrect *)
(* Flags is the claim for the boards on which every flag is on a mine.     *)
(***************************************************************************)
MovesAgreeWithMines ==
    \A order \in IterOrders : \A m \in MoveSet(order) :
        /\ m[3] = "REVEAL" => ~IsMine(<<m[1], m[2]>>)
        /\ m[3] = "FLAG" => IsMine(<<m[1], m[2]>>)

BatchNeverLoses == \A order \in IterOrders : DoSolve(order) => state' # "LOST"

FlagsCorrect == \A p \in Coords : IsFlagged(p) => IsMine(p)

C5_Original ==
    [][state = "PLAYING" => MovesAgreeWithMines /\ BatchNeverLoses]_vars

C5_CertainUnderCorrectFlags ==
    [][(state = "PLAYING" /\ FlagsCorrect) => MovesAgreeWithMines /\ BatchNeverLoses]_vars

(* A PLAYING board with a flag on a mine, on which the solver reveals. *)
C5_Witness ==
    /\ state = "PLAYING"
    /\ FlagsCorrect /\ Flagged(board) # {}
    /\ \E m \in MoveSet("asc") : m[3] = "REVEAL"

(***************************************************************************)
(* The deduction rules as the specification states them, over the frontier *)
(* views: the moves of the trivial rules, and the moves of the subset rule *)
(* for the ordered pairs (A, B) with H_A strictly inside H_B.              *)
(***************************************************************************)
MovesOn(targets, action) == {<<p[1], p[2], action>> : p \in targets}

TrivialFlagMoves ==
    UNION {MovesOn(v.hidden_neighbors, "FLAG") :
             v \in {w \in Views : /\ w.remaining_mines = Cardinality(w.hidden_neighbors)
                                  /\ w.remaining_mines > 0}}

TrivialRevealMoves ==
    UNION {MovesOn(v.hidden_neighbors, "REVEAL") :
             v \in {w \in Views : w.remaining_mines = 0}}

TrivialMoves == TrivialFlagMoves \cup TrivialRevealMoves

StrictPairs ==
    {pr \in Views \X Views :
        /\ <<pr[1].row, pr[1].col>> # <<pr[2].row, pr[2].col>>
        /\ pr[1].hidden_neighbors \subseteq pr[2].hidden_neighbors
        /\ pr[1].hidden_neighbors # pr[2].hidden_neighbors}

PairDiff(pr) == pr[2].hidden_neighbors \ pr[1].hidden_neighbors

PairExtra(pr) == pr[2].remaining_mines - pr[1].remaining_mines

SubsetRevealMoves ==
    UNION {MovesOn(PairDiff(pr), "REVEAL") : pr \in {q \in StrictPairs : PairExtra(q) = 0}}

SubsetFlagMoves ==
    UNION {MovesOn(PairDiff(pr), "FLAG") :
             pr \in {q \in StrictPairs : PairExtra(q) = Cardinality(PairDiff(q))}}

SubsetMoves == SubsetRevealMoves \cup SubsetFlagMoves

(***************************************************************************)
(* C6.  Early exit: whenever a trivial rule produces a move, solve_step    *)
(* returns exactly the trivial moves and nothing from the subset rule.     *)
(* C6_Original is the claim as made.  The code runs the subset rule in     *)
(* every call: C6_SubsetAlwaysRuns says that the result is the trivial     *)
(* moves, first in the list, followed by the subset moves not among them.  *)
(***************************************************************************)
C6_Original ==
    \A order \in IterOrders : TrivialMoves # {} => MoveSet(order) = TrivialMoves

C6_SubsetAlwaysRuns ==
    LET trivial == TrivialMoves
        subset == SubsetMoves
    IN \A order \in IterOrders :
           LET moves == solve_step(board, order)
           IN /\ Range(moves) = trivial \cup subset
              /\ Len(moves) >= Cardinality(trivial)
              /\ {moves[i] : i \in 1 .. Cardinality(trivial)} = trivial

(* A trivial move and a subset move that no trivial rule gives, at once. *)
C6_Witness ==
    /\ state = "PLAYING"
    /\ TrivialMoves # {}
    /\ SubsetMoves \ TrivialMoves # {}

(***************************************************************************)
(* C7.  Subset reveal rule: for every pair of distinct frontier cells A, B *)
(* with H_A strictly inside H_B and m_B - m_A = 0, the result of           *)
(* solve_step holds (r, c, REVEAL) for every (r, c) of H_B - H_A.          *)
(***************************************************************************)
C7_SubsetReveal ==
    \A order \in IterOrders :
        LET moves == MoveSet(order)
        IN \A pr \in StrictPairs :
               PairExtra(pr) = 0 => MovesOn(PairDiff(pr), "REVEAL") \subseteq moves

(* Such a pair on a board in play, where no trivial rule reveals the cells. *)
C7_Witness ==
    /\ state = "PLAYING"
    /\ \E pr \in StrictPairs :
          /\ PairExtra(pr) = 0
          /\ MovesOn(PairDiff(pr), "REVEAL") \cap TrivialMoves = {}

(***************************************************************************)
(* C8.  Subset flag rule: for every pair of distinct frontier cells A, B   *)
(* with H_A strictly inside H_B and m_B - m_A = |H_B - H_A| > 0, the       *)
(* result of solve_step holds (r, c, FLAG) for every (r, c) of H_B - H_A,  *)
(* and the pair itself, taken in either order, produces no REVEAL move.    *)
(***************************************************************************)
DataOf(v) ==
    [r |-> v.row, c |-> v.col, mines_needed |-> v.remaining_mines,
     hidden_coords |-> v.hidden_neighbors]

PairMoves(A, B, order) ==
    Range(SubsetPairStep(board,
                         [certain_moves |-> <<>>, seen_moves |-> {}, frontier_data |-> <<>>],
                         DataOf(A), DataOf(B), order).certain_moves)

C8_SubsetFlag ==
    \A order \in IterOrders :
        LET moves == MoveSet(order)
        IN \A pr \in StrictPairs :
               (PairExtra(pr) = Cardinality(PairDiff(pr)) /\ PairExtra(pr) > 0)
               => /\ MovesOn(PairDiff(pr), "FLAG") \subseteq moves
                  /\ \A m \in PairMoves(pr[1], pr[2], order)
                               \cup PairMoves(pr[2], pr[1], order) : m[3] # "REVEAL"

(* Such a pair on a board in play, where no trivial rule flags the cells. *)
C8_Witness ==
    /\ state = "PLAYING"
    /\ \E pr \in StrictPairs :
          /\ PairExtra(pr) = Cardinality(PairDiff(pr))
          /\ MovesOn(PairDiff(pr), "FLAG") \cap TrivialMoves = {}

(***************************************************************************)
(* C9.  Trivial flag rule: for every frontier cell whose remaining_mines   *)
(* equals the number of its hidden unflagged neighbours and is > 0,        *)
(* solve_step returns (r, c, FLAG) for each of those neighbours.           *)
(***************************************************************************)
C9_TrivialFlag ==
    \A order \in IterOrders :
        LET moves == MoveSet(order)
        IN \A v \in Views :
               (v.remaining_mines = Cardinality(v.hidden_neighbors) /\ v.remaining_mines > 0)
               => MovesOn(v.hidden_neighbors, "FLAG") \subseteq moves

(* A frontier cell in play with two hidden neighbours, both of them mines. *)
C9_Witness ==
    /\ state = "PLAYING"
    /\ \E v \in Views :
          /\ v.remaining_mines = 2
          /\ Cardinality(v.hidden_neighbors) = 2
          /\ v.flagged_neighbors = 0

(***************************************************************************)
(* C10.  Trivial reveal rule: for every frontier cell whose flagged        *)
(* neighbours are as many as its neighbor_mines, solve_step returns        *)
(* (r, c, REVEAL) for every hidden unflagged neighbour of the cell, and no *)
(* move at all for its flagged neighbours.                                 *)
(***************************************************************************)
C10_TrivialReveal ==
    \A order \in IterOrders :
        LET moves == MoveSet(order)
        IN \A v \in Views :
               v.flagged_neighbors = cells[<<v.row, v.col>>].neighbor_mines
               => /\ MovesOn(v.hidden_neighbors, "REVEAL") \subseteq moves
                  /\ \A n \in Coords :
                        (Adjacent(<<v.row, v.col>>, n) /\ IsFlagged(n))
                        => \A m \in moves : <<m[1], m[2]>> # n

(* A numbered cell in play whose one mine is flagged, with hidden neighbours *)
(* left to reveal.                                                           *)
C10_Witness ==
    /\ state = "PLAYING"
    /\ \E v \in Views :
          /\ v.flagged_neighbors = 1
          /\ cells[<<v.row, v.col>>].neighbor_mines = 1
          /\ \E n \in Coords : Adjacent(<<v.row, v.col>>, n) /\ IsFlagged(n) /\ IsMine(n)

(***************************************************************************)
(* C11.  No move without a rule: every move solve_step returns is a move   *)
(* of the trivial flag rule or the trivial reveal rule on some frontier    *)
(* cell, or of the subset rule on some pair; when no cell and no pair      *)
(* satisfies a rule, and so when there is no revealed numbered cell at     *)
(* all, the result is the empty list.                                      *)
(***************************************************************************)
C11_NoMoveWithoutRule ==
    LET by_rule == TrivialFlagMoves \cup TrivialRevealMoves \cup SubsetMoves
        numbered == {p \in Coords : IsRevealed(p) /\ cells[p].neighbor_mines > 0}
    IN \A order \in IterOrders :
           LET moves == solve_step(board, order)
           IN /\ \A i \in DOMAIN moves : moves[i] \in by_rule
              /\ by_rule = {} => moves = <<>>
              /\ numbered = {} => moves = <<>>

(* A board in play with numbered cells on the frontier whose mines no rule *)
(* can locate: the solver has nothing to return.                           *)
C11_Witness ==
    /\ state = "PLAYING"
    /\ Cardinality(Views) >= 2
    /\ \E v \in Views : v.remaining_mines > 0 /\ Cardinality(v.hidden_neighbors) >= 2
    /\ solve_step(board, "asc") = <<>>

(***************************************************************************)
(* C12.  De-duplication: the list one solve_step call returns holds no     *)
(* (row, col, action) triple twice, also when several frontier cells,      *)
(* several pairs, or the trivial and the subset pass deduce the same move. *)
(***************************************************************************)
C12_NoDuplicateMoves ==
    \A order \in IterOrders :
        LET moves == solve_step(board, order)
        IN \A i, j \in DOMAIN moves : i # j => moves[i] # moves[j]

(* Two frontier cells whose trivial flag rules both name the same cell. *)
C12_Witness ==
    /\ state = "PLAYING"
    /\ \E v, w \in Views :
          /\ <<v.row, v.col>> # <<w.row, w.col>>
          /\ v.remaining_mines = Cardinality(v.hidden_neighbors) /\ v.remaining_mines > 0
          /\ w.remaining_mines = Cardinality(w.hidden_neighbors) /\ w.remaining_mines > 0
          /\ v.hidden_neighbors \cap w.hidden_neighbors # {}
    /\ solve_step(board, "asc") # <<>>

(***************************************************************************)
(* C13.  Solver moves only target undecided cells: every move solve_step   *)
(* returns is a FLAG or a REVEAL of an in-bounds cell that is neither      *)
(* revealed nor flagged at the time of the call.                           *)
(***************************************************************************)
C13_MovesTargetUndecided ==
    \A order \in IterOrders : \A m \in MoveSet(order) :
        /\ m[3] \in {"FLAG", "REVEAL"}
        /\ 0 <= m[1] /\ m[1] < rows /\ 0 <= m[2] /\ m[2] < cols
        /\ ~IsRevealed(<<m[1], m[2]>>)
        /\ ~IsFlagged(<<m[1], m[2]>>)

(* The solver moves for a frontier cell that has a flagged neighbour next *)
(* to its hidden ones.                                                    *)
C13_Witness ==
    /\ state = "PLAYING"
    /\ \E v \in Views :
          /\ v.flagged_neighbors > 0
          /\ \E m \in MoveSet("desc") : <<m[1], m[2]>> \in v.hidden_neighbors

(***************************************************************************)
(* C14.  reveal(r, c) is a silent no-op, leaving every cell, state, mines  *)
(* and mines_placed as they were (so it places no mines), whenever (r, c)  *)
(* is out of bounds, negative indices included, or state is not PLAYING,   *)
(* or the cell is already revealed, or the cell is flagged.                *)
(***************************************************************************)
RevealRefused(p) ==
    IF 0 <= p[1] /\ p[1] < rows /\ 0 <= p[2] /\ p[2] < cols
    THEN state # "PLAYING" \/ IsRevealed(p) \/ IsFlagged(p)
    ELSE TRUE

(* Whatever random.sample would return if it were called. *)
AnySample == IF mines_placed THEN {{}} ELSE SUBSET Coords

C14_RevealNoOp ==
    \A p \in CallArgs :
        RevealRefused(p)
        => \A mine_locations \in AnySample :
               reveal(board, p[1], p[2], mine_locations) = board

(* A flag set before the first reveal: reveal of the flagged cell must not *)
(* place the mines.                                                       *)
C14_Witness ==
    /\ state = "PLAYING" /\ ~mines_placed /\ mines > 0
    /\ \E p \in Coords : IsFlagged(p) /\ RevealRefused(p)

(***************************************************************************)
(* C15.  Frame of flag(r, c): it changes at most the is_flagged bit of the *)
(* cell (r, c).  It never changes is_revealed, is_mine or neighbor_mines   *)
(* of any cell, nor state, mines, mines_placed or the size of the grid,    *)
(* and it changes nothing at all when (r, c) is out of bounds, state is    *)
(* not PLAYING, or the cell is revealed.                                   *)
(***************************************************************************)
FlagRefused(p) ==
    IF 0 <= p[1] /\ p[1] < rows /\ 0 <= p[2] /\ p[2] < cols
    THEN state # "PLAYING" \/ IsRevealed(p)
    ELSE TRUE

C15_FlagFrame ==
    \A p \in CallArgs :
        LET after == flag(board, p[1], p[2])
        IN /\ after.state = state /\ after.mines = mines
           /\ after.mines_placed = mines_placed
           /\ after.rows = rows /\ after.cols = cols
           /\ DOMAIN after.cells = Coords
           /\ \A q \in Coords :
                 /\ after.cells[q].is_revealed = cells[q].is_revealed
                 /\ after.cells[q].is_mine = cells[q].is_mine
                 /\ after.cells[q].neighbor_mines = cells[q].neighbor_mines
                 /\ q # p => after.cells[q].is_flagged = cells[q].is_flagged
           /\ FlagRefused(p) => after = board

(* A game in play with a numbered revealed cell, a hidden mine and a flag: *)
(* flag has cells to refuse and cells to toggle.                          *)
C15_Witness ==
    /\ state = "PLAYING" /\ mines_placed
    /\ \E p \in Coords : IsRevealed(p) /\ cells[p].neighbor_mines > 0
    /\ \E p \in Coords : IsMine(p) /\ ~IsFlagged(p)
    /\ \E p \in Coords : IsFlagged(p)

(***************************************************************************)
(* C16.  Flag is a toggle: for every coordinate, two calls of flag(r, c)   *)
(* in a row restore the board exactly; on a PLAYING board and an in-bounds *)
(* unrevealed cell the first call flips is_flagged (it sets the flag of an *)
(* unflagged cell) and the second call flips it back (it clears it).       *)
(***************************************************************************)
C16_FlagToggle ==
    \A p \in CallArgs :
        LET once == flag(board, p[1], p[2])
            twice == flag(once, p[1], p[2])
        IN /\ twice = board
           /\ ~FlagRefused(p)
                 => /\ once.cells[p].is_flagged = ~cells[p].is_flagged
                    /\ twice.cells[p].is_flagged = cells[p].is_flagged
                    /\ ~IsFlagged(p) => once.cells[p].is_flagged /\ ~twice.cells[p].is_flagged

(* A game in play where flag finds an unflagged hidden cell to set, next to *)
(* a flag that a call would clear.                                          *)
C16_Witness ==
    /\ state = "PLAYING" /\ mines_placed
    /\ \E p, q \in Coords :
          /\ ~FlagRefused(p) /\ ~IsFlagged(p)
          /\ ~FlagRefused(q) /\ IsFlagged(q)

(***************************************************************************)
(* C17.  Flood boundary.  ZeroRegion is the maximal 8-connected region of  *)
(* zero-count cells around p, RegionWithRim the region with every          *)
(* neighbour of its cells.  Cascade is what the breadth-first cascade can  *)
(* reach: p, and every cell that was hidden and unflagged before the call  *)
(* and is a neighbour of a zero-count cell already reached.                *)
(*                                                                         *)
(* C17_Original is the claim as made: a successful reveal of a zero-count  *)
(* cell reveals exactly RegionWithRim.  The cascade skips flagged cells    *)
(* and does not restart from zero cells revealed earlier, so the claim     *)
(* fails.  C17_FloodWithinRim: the call reveals exactly Cascade, which     *)
(* holds no flagged cell and lies within RegionWithRim, and is all that    *)
(* was hidden of RegionWithRim when that holds no flagged cell and no      *)
(* zero-count cell revealed before.                                        *)
(***************************************************************************)
ZeroCell(b, q) == ~b.cells[q].is_mine /\ b.cells[q].neighbor_mines = 0

RECURSIVE ZeroRegionFrom(_, _)
ZeroRegionFrom(b, S) ==
    LET grown == S \cup {q \in DOMAIN b.cells :
                            ZeroCell(b, q) /\ \E z \in S : Adjacent(z, q)}
    IN IF grown = S THEN S ELSE ZeroRegionFrom(b, grown)

ZeroRegion(b, p) == ZeroRegionFrom(b, {p})

RegionWithRim(b, p) ==
    LET region == ZeroRegion(b, p)
    IN region \cup {q \in DOMAIN b.cells : \E z \in region : Adjacent(z, q)}

RECURSIVE CascadeFrom(_, _, _)
CascadeFrom(before, after, S) ==
    LET grown == S \cup {q \in DOMAIN before.cells :
                            /\ ~before.cells[q].is_revealed
                            /\ ~before.cells[q].is_flagged
                            /\ \E z \in S : ZeroCell(after, z) /\ Adjacent(z, q)}
    IN IF grown = S THEN S ELSE CascadeFrom(before, after, grown)

Cascade(before, after, p) == CascadeFrom(before, after, {p})

(* The boards a successful reveal of a zero-count cell p can leave. *)
ZeroReveals(p) ==
    IF RevealRefused(p) THEN {}
    ELSE {after \in {reveal(board, p[1], p[2], mine_locations) :
                        mine_locations \in RevealSamples(board, p[1], p[2])} :
             after.cells[p].is_revealed /\ ZeroCell(after, p)}

C17_Original ==
    \A p \in Coords : \A after \in ZeroReveals(p) :
        Revealed(after) = Revealed(board) \cup RegionWithRim(after, p)

C17_FloodWithinRim ==
    \A p \in Coords : \A after \in ZeroReveals(p) :
        LET reached == Cascade(board, after, p)
            within == RegionWithRim(after, p)
        IN /\ Revealed(after) = Revealed(board) \cup reached
           /\ reached \subseteq within
           /\ \A q \in reached : ~after.cells[q].is_flagged /\ ~after.cells[q].is_mine
           /\ Flagged(after) = Flagged(board)
           /\ (\A q \in within : /\ ~IsFlagged(q)
                                  /\ ~(IsRevealed(q) /\ ZeroCell(after, q)))
                 => reached = within \ Revealed(board)

(* Mines are placed, and a hidden zero-count cell can be revealed whose    *)
(* cascade has hidden cells to reach and a flag in its way.                *)
C17_Witness ==
    /\ state = "PLAYING" /\ mines_placed /\ mines > 0
    /\ \E p \in Coords : \E after \in ZeroReveals(p) :
          /\ Cardinality(Cascade(board, after, p)) >= 3
          /\ \E q \in RegionWithRim(after, p) : IsFlagged(q)

(***************************************************************************)
(* C18.  Mine count invariant: once the mines are placed, the number of    *)
(* cells with is_mine equals mines; and the reveal that places them sets   *)
(* mines to the configured count, reduced to the size of the candidate     *)
(* pool, rows * cols - |safe zone|, when it exceeded it.  Before the       *)
(* placement no cell is a mine.                                            *)
(***************************************************************************)
SafeZoneSize(p) == Cardinality({q \in Coords : q = p \/ Adjacent(p, q)})

PoolSize(p) == rows * cols - SafeZoneSize(p)

C18_MineCount ==
    /\ mines_placed => Cardinality({q \in Coords : IsMine(q)}) = mines
    /\ ~mines_placed =>
          /\ \A q \in Coords : ~IsMine(q)
          /\ \A p \in Coords : ~RevealRefused(p) =>
                \A mine_locations \in RevealSamples(board, p[1], p[2]) :
                    LET after == reveal(board, p[1], p[2], mine_locations)
                    IN /\ after.mines_placed
                       /\ after.mines = IF mines > PoolSize(p) THEN PoolSize(p) ELSE mines
                       /\ Cardinality(Mines(after)) = after.mines

(* A 1x3 board after a first click in the corner: the pool is the one cell *)
(* outside the safe zone, and it holds the one mine the board has.         *)
C18_Witness ==
    /\ mines_placed /\ rows = 1 /\ cols = 3
    /\ IsRevealed(<<0, 0>>) /\ IsMine(<<0, 2>>)
    /\ mines = 1 /\ PoolSize(<<0, 0>>) = 1

(***************************************************************************)
(* C19.  Configuration range: whatever the inputs of the constructor       *)
(* (rows, cols and mines absent, non-positive or any integer, and any      *)
(* difficulty string), in the constructed board and in every state reached *)
(* from it rows > 0, cols > 0 and 0 <= mines <= rows * cols - 1.           *)
(***************************************************************************)
C19_ConfigRange ==
    /\ rows > 0
    /\ cols > 0
    /\ 0 <= mines
    /\ mines <= rows * cols - 1

(* A board of 9 rows, the default, since rows was absent or not positive,  *)
(* of the 4 columns asked for, with the 15% of mines of an absent count.   *)
C19_Witness ==
    /\ rows = 9 /\ cols = 4 /\ mines = 5
    /\ state = "PLAYING" /\ ~mines_placed
    /\ DOMAIN cells = (0 .. 8) \X (0 .. 3)

(***************************************************************************)
(* C20.  Preset resolution: with difficulty one of beginner, intermediate, *)
(* expert and neither rows nor cols given, the configuration is exactly    *)
(* the preset (9,9,10), (16,16,40) or (30,16,99), whatever the mines       *)
(* argument; when rows or cols is given the preset is not used, even with  *)
(* a valid difficulty: each of rows and cols is the value given if it is   *)
(* positive and 9 otherwise, and mines is the argument (15% of the cells,  *)
(* rounded down, if absent) brought into 0 .. rows * cols - 1.             *)
(***************************************************************************)
PresetOf(difficulty) ==
    IF difficulty = "beginner" THEN <<9, 9, 10>>
    ELSE IF difficulty = "intermediate" THEN <<16, 16, 40>>
    ELSE <<30, 16, 99>>

CustomOf(rows_arg, cols_arg, mines_arg) ==
    LET r == IF rows_arg # None /\ rows_arg[1] > 0 THEN rows_arg[1] ELSE 9
        c == IF cols_arg # None /\ cols_arg[1] > 0 THEN cols_arg[1] ELSE 9
        asked == IF mines_arg = None THEN (r * c * 15) \div 100 ELSE mines_arg[1]
        m == IF asked > r * c - 1 THEN r * c - 1 ELSE IF asked < 0 THEN 0 ELSE asked
    IN <<r, c, m>>

PresetsResolved ==
    /\ \A difficulty \in {"beginner", "intermediate", "expert"} :
       \A mines_arg \in MinesArgs :
           get_config(None, None, mines_arg, difficulty) = PresetOf(difficulty)
    /\ \A rows_arg \in RowsArgs, cols_arg \in ColsArgs :
           (rows_arg # None \/ cols_arg # None)
           => \A mines_arg \in MinesArgs, difficulty \in DifficultyArgs :
                  get_config(rows_arg, cols_arg, mines_arg, difficulty)
                      = CustomOf(rows_arg, cols_arg, mines_arg)

(* The constructor resolves its inputs as stated, and so a board on which  *)
(* no mines are placed yet has a preset or a custom configuration.         *)
C20_PresetResolution ==
    /\ PresetsResolved
    /\ ~mines_placed =>
          \/ <<rows, cols, mines>> \in {PresetOf(d) : d \in {"beginner", "intermediate", "expert"}}
          \/ \E rows_arg \in RowsArgs, cols_arg \in ColsArgs, mines_arg \in MinesArgs :
                 /\ rows_arg # None \/ cols_arg # None
                 /\ <<rows, cols, mines>> = CustomOf(rows_arg, cols_arg, mines_arg)

(* The expert preset, constructed. *)
C20_Witness ==
    /\ rows = 30 /\ cols = 16 /\ mines = 99
    /\ state = "PLAYING" /\ ~mines_placed
    /\ \A q \in Coords : ~IsMine(q) /\ ~IsRevealed(q) /\ ~IsFlagged(q)

(***************************************************************************)
(* Vocabulary of the configuration claims.  The constructor is applied to  *)
(* every input of RowsArgs, ColsArgs, MinesArgs and DifficultyArgs, and,   *)
(* in every state, to the numbers of the current board.                    *)
(***************************************************************************)
PresetNames == {"beginner", "intermediate", "expert"}

Clamp(v, lo, hi) == IF v > hi THEN hi ELSE IF v < lo THEN lo ELSE v

(* floor(total * 0.15) *)
Density(total) == (total * 15) \div 100

DimensionOf(arg) == IF arg # None /\ arg[1] > 0 THEN arg[1] ELSE 9

(***************************************************************************)
(* C21.  Unknown difficulty fallback: with a difficulty that is no preset  *)
(* name and neither rows nor cols given, the configuration is the beginner *)
(* preset (9, 9, 10), whatever mines is; the constructor returns a board.  *)
(***************************************************************************)
UnknownFallsBack ==
    \A difficulty \in DifficultyArgs \ PresetNames : \A mines_arg \in MinesArgs :
        /\ get_config(None, None, mines_arg, difficulty) = <<9, 9, 10>>
        /\ LET b == NewBoard(None, None, mines_arg, difficulty)
           IN /\ <<b.rows, b.cols, b.mines>> = <<9, 9, 10>>
              /\ b.state = "PLAYING" /\ ~b.mines_placed
              /\ DOMAIN b.cells = (0 .. 8) \X (0 .. 8)

C21_UnknownDifficultyFallback ==
    /\ UnknownFallsBack
    /\ \A difficulty \in DifficultyArgs \ PresetNames :
          get_config(None, None, Some(mines), difficulty) = <<9, 9, 10>>

(* The 9x9 board with 10 mines, constructed and untouched. *)
C21_Witness ==
    /\ rows = 9 /\ cols = 9 /\ mines = 10
    /\ state = "PLAYING" /\ ~mines_placed
    /\ Cardinality(Coords) = 81

(***************************************************************************)
(* C22.  Explicit mine count.  C22_Original is the claim as made: whenever *)
(* mines is given, whatever difficulty, rows and cols are, the resolved    *)
(* count is clamp(mines, 0, rows * cols - 1) on the resolved rows and      *)
(* cols.  The code looks at mines only when rows or cols is given:         *)
(* C22_ExplicitMinesClamped says that the count is the clamped argument    *)
(* then, and the 10, 40 or 99 of the preset returned otherwise.            *)
(***************************************************************************)
ClampedInAllCalls ==
    \A rows_arg \in RowsArgs, cols_arg \in ColsArgs, difficulty \in DifficultyArgs :
    \A mines_arg \in MinesArgs \ {None} :
        LET cfg == get_config(rows_arg, cols_arg, mines_arg, difficulty)
        IN cfg[3] = Clamp(mines_arg[1], 0, cfg[1] * cfg[2] - 1)

ClampedInCustomCalls ==
    \A rows_arg \in RowsArgs, cols_arg \in ColsArgs, difficulty \in DifficultyArgs :
    \A mines_arg \in MinesArgs \ {None} :
        LET cfg == get_config(rows_arg, cols_arg, mines_arg, difficulty)
        IN IF rows_arg # None \/ cols_arg # None
           THEN cfg[3] = Clamp(mines_arg[1], 0, cfg[1] * cfg[2] - 1)
           ELSE cfg[3] = IF difficulty = "intermediate" THEN 40
                         ELSE IF difficulty = "expert" THEN 99 ELSE 10

(* The board's own rows and cols, with its mine count, one too low to be *)
(* a count and one too high for the board.                               *)
ClampedOnThisBoard ==
    \A difficulty \in DifficultyArgs :
    \A asked \in {mines, 0 - 1 - mines, mines + rows * cols} :
        get_config(Some(rows), Some(cols), Some(asked), difficulty)
            = <<rows, cols, Clamp(asked, 0, rows * cols - 1)>>

C22_Original == ClampedInAllCalls /\ ClampedOnThisBoard

C22_ExplicitMinesClamped == ClampedInCustomCalls /\ ClampedOnThisBoard

(* A 2x4 board constructed with no mines: only an explicit count, 0 or a *)
(* negative one, gives it, the default density being 1.                  *)
C22_Witness ==
    /\ rows = 2 /\ cols = 4 /\ mines = 0
    /\ state = "PLAYING" /\ ~mines_placed

(***************************************************************************)
(* C23.  Default density.  C23_Original is the claim as made: whenever the *)
(* difficulty is no preset name, or rows or cols is given, and mines is    *)
(* omitted, the resolved count is floor(rows * cols * 0.15) on the         *)
(* resolved dimensions, clamped to 0 .. rows * cols - 1.  With an unknown  *)
(* difficulty and no size the code returns the beginner preset, 10 mines   *)
(* where the density gives 12: C23_DefaultDensity says that the density    *)
(* applies exactly when rows or cols is given.                             *)
(***************************************************************************)
DensityUnlessPreset ==
    \A rows_arg \in RowsArgs, cols_arg \in ColsArgs, difficulty \in DifficultyArgs :
        (difficulty \notin PresetNames \/ rows_arg # None \/ cols_arg # None)
        => LET cfg == get_config(rows_arg, cols_arg, None, difficulty)
           IN cfg[3] = Clamp(Density(cfg[1] * cfg[2]), 0, cfg[1] * cfg[2] - 1)

DensityInCustomCalls ==
    \A rows_arg \in RowsArgs, cols_arg \in ColsArgs, difficulty \in DifficultyArgs :
        LET cfg == get_config(rows_arg, cols_arg, None, difficulty)
        IN IF rows_arg # None \/ cols_arg # None
           THEN cfg[3] = Clamp(Density(cfg[1] * cfg[2]), 0, cfg[1] * cfg[2] - 1)
           ELSE cfg[3] = IF difficulty = "intermediate" THEN 40
                         ELSE IF difficulty = "expert" THEN 99 ELSE 10

DensityOnThisBoard ==
    \A difficulty \in DifficultyArgs :
        get_config(Some(rows), Some(cols), None, difficulty)
            = <<rows, cols, Clamp(Density(rows * cols), 0, rows * cols - 1)>>

C23_Original == DensityUnlessPreset /\ DensityOnThisBoard

C23_DefaultDensity == DensityInCustomCalls /\ DensityOnThisBoard

(* A board of 9 rows and 3 columns with the 4 mines of the density: more *)
(* than any explicit count of MinesArgs.                                 *)
C23_Witness ==
    /\ rows = 9 /\ cols = 3 /\ mines = 4
    /\ mines > MaxMines
    /\ state = "PLAYING" /\ ~mines_placed

(***************************************************************************)
(* C24.  Dimension fallback: when rows or cols is given, each dimension is *)
(* resolved on its own: the value given if it is a positive integer, and   *)
(* the 9 of the beginner preset otherwise; an invalid rows does not        *)
(* discard a valid cols, nor the converse.                                 *)
(***************************************************************************)
DimensionsIndependent ==
    \A rows_arg \in RowsArgs, cols_arg \in ColsArgs :
        (rows_arg # None \/ cols_arg # None)
        => \A mines_arg \in MinesArgs, difficulty \in DifficultyArgs :
               LET cfg == get_config(rows_arg, cols_arg, mines_arg, difficulty)
               IN cfg[1] = DimensionOf(rows_arg) /\ cfg[2] = DimensionOf(cols_arg)

C24_DimensionFallback ==
    /\ DimensionsIndependent
    /\ \A difficulty \in DifficultyArgs : \A bad \in {None, Some(0), Some(0 - rows)} :
          LET keeps_cols == get_config(bad, Some(cols), Some(mines), difficulty)
              keeps_rows == get_config(Some(rows), bad, Some(mines), difficulty)
          IN /\ keeps_cols[1] = 9 /\ keeps_cols[2] = cols
             /\ keeps_rows[1] = rows /\ keeps_rows[2] = 9

(* 2 rows, as asked, and the 9 columns of the fallback. *)
C24_Witness ==
    /\ rows = 2 /\ cols = 9
    /\ state = "PLAYING" /\ ~mines_placed

(***************************************************************************)
(* C25.  Before the first successful reveal: the freshly constructed board *)
(* and every state reached from it by flag calls and no-op reveals has     *)
(* state = PLAYING, mines_placed = FALSE, no cell with is_mine and no cell *)
(* revealed.  A successful reveal always reveals the clicked cell, so the  *)
(* states before the first one are those with no revealed cell.            *)
(***************************************************************************)
Unstarted(b) ==
    /\ b.state = "PLAYING"
    /\ ~b.mines_placed
    /\ \A q \in DOMAIN b.cells : ~b.cells[q].is_mine /\ ~b.cells[q].is_revealed

C25_BeforeFirstReveal ==
    /\ (Revealed(board) = {} \/ ~mines_placed) => Unstarted(board)
    /\ Unstarted(board)
       => \A p \in CallArgs :
              /\ Unstarted(flag(board, p[1], p[2]))
              /\ RevealRefused(p)
                 => \A mine_locations \in AnySample :
                        Unstarted(reveal(board, p[1], p[2], mine_locations))

(* Flags were set and a reveal of a flagged cell is refused, on a board    *)
(* that has mines to place.                                                *)
C25_Witness ==
    /\ Unstarted(board) /\ mines > 0
    /\ Cardinality(Flagged(board)) = 2
    /\ \E p \in Coords : IsFlagged(p) /\ RevealRefused(p)

(***************************************************************************)
(* C26.  Placement happens exactly once: mines_placed turns from FALSE to  *)
(* TRUE exactly in the first successful reveal (the step that reveals a    *)
(* cell of a board with none revealed) and never reverts; the mines are    *)
(* placed in that step and in no other, and after it the set of mine cells *)
(* and the mines field never change.                                       *)
(***************************************************************************)
C26_PlacedOnce ==
    [][LET before == {q \in Coords : cells[q].is_mine}
           after == {q \in Coords : cells'[q].is_mine}
           first_reveal == (\A q \in Coords : ~cells[q].is_revealed)
                           /\ (\E q \in Coords : cells'[q].is_revealed)
       IN /\ mines_placed => mines_placed'
          /\ (~mines_placed /\ mines_placed') <=> first_reveal
          /\ (after # before \/ mines' # mines) => ~mines_placed /\ mines_placed'
          /\ mines_placed => after = before /\ mines' = mines]_vars

(* The first click never loses, so a lost game has seen the placing reveal *)
(* and a later successful one; its two mines are those placed at first.    *)
C26_Witness ==
    /\ mines_placed /\ state = "LOST" /\ mines = 2
    /\ Cardinality({q \in Coords : IsMine(q)}) = 2
    /\ Cardinality({q \in Coords : IsRevealed(q)}) >= 2

(***************************************************************************)
(* C27.  Neighbour counts are consistent: in every state with mines_placed *)
(* the neighbor_mines of every non-mine cell is the number of mines among  *)
(* its in-bounds 8-neighbours; once the mines are placed no reveal and no  *)
(* flag changes any neighbor_mines; and a mine cell keeps the              *)
(* neighbor_mines it had, in the placing reveal too.                       *)
(***************************************************************************)
KeepsCounts(after, which) ==
    \A q \in which : after.cells[q].neighbor_mines = cells[q].neighbor_mines

C27_NeighborCounts ==
    /\ mines_placed =>
          \A q \in Coords :
              ~IsMine(q) =>
                  cells[q].neighbor_mines =
                      Cardinality({n \in Coords : Adjacent(q, n) /\ IsMine(n)})
    /\ \A p \in CallArgs :
          /\ KeepsCounts(flag(board, p[1], p[2]), Coords)
          /\ \A mine_locations \in RevealSamples(board, p[1], p[2]) :
                LET after == reveal(board, p[1], p[2], mine_locations)
                IN /\ mines_placed => KeepsCounts(after, Coords)
                   /\ KeepsCounts(after, Mines(after))

(* Two adjacent mines, each still with the count 0 of a fresh cell, and a  *)
(* revealed safe cell that touches both.                                   *)
C27_Witness ==
    /\ mines_placed
    /\ \E m1 \in Coords, m2 \in Coords, q \in Coords :
          /\ IsMine(m1) /\ IsMine(m2) /\ Adjacent(m1, m2)
          /\ cells[m1].neighbor_mines = 0 /\ cells[m2].neighbor_mines = 0
          /\ IsRevealed(q) /\ ~IsMine(q) /\ cells[q].neighbor_mines = 2

(***************************************************************************)
(* C28.  Reveal is monotonic: no step of a game turns a revealed cell into *)
(* an unrevealed one, so the set of revealed cells only grows.             *)
(***************************************************************************)
C28_RevealMonotonic ==
    [][\A q \in Coords : cells[q].is_revealed => cells'[q].is_revealed]_vars

(* A lost game: cells were revealed, then a mine was, and the cells        *)
(* revealed before the mine are still revealed.                            *)
C28_Witness ==
    /\ state = "LOST"
    /\ \E m \in Coords : IsMine(m) /\ IsRevealed(m)
    /\ Cardinality({q \in Coords : IsRevealed(q) /\ ~IsMine(q)}) >= 3

(***************************************************************************)
(* C29.  Over-flagged cells degrade gracefully: where flags make the       *)
(* remaining_mines of a frontier cell negative, solve_step still returns a *)
(* list of well-formed moves; a frontier cell with remaining_mines < 0     *)
(* yields no trivial FLAG or REVEAL move, and a pair (A, B) with           *)
(* m_B - m_A < 0 yields no move, so the result is what the other cells and *)
(* pairs yield.                                                            *)
(***************************************************************************)
NoMovesYet == [certain_moves |-> <<>>, seen_moves |-> {}, frontier_data |-> <<>>]

CellMoves(v, order) ==
    Range(FrontierCellStep(board, NoMovesYet, <<v.row, v.col>>, order).certain_moves)

C29_OverFlagged ==
    \A order \in IterOrders :
        LET views == Views
            moves == MoveSet(order)
            pairs == views \X views
            from_cells == UNION {CellMoves(v, order) :
                                   v \in {w \in views : w.remaining_mines >= 0}}
            from_pairs == UNION {PairMoves(pr[1], pr[2], order) :
                                   pr \in {q \in pairs : PairExtra(q) >= 0}}
        IN /\ \A v \in views : v.remaining_mines < 0 => CellMoves(v, order) = {}
           /\ \A pr \in pairs : PairExtra(pr) < 0 => PairMoves(pr[1], pr[2], order) = {}
           /\ \A m \in moves : <<m[1], m[2]>> \in Coords /\ m[3] \in {"FLAG", "REVEAL"}
           /\ moves = from_cells \cup from_pairs

(* A numbered cell with more flags around it than mines and a hidden cell  *)
(* left, whose hidden set strictly contains that of a cell that needs more *)
(* mines than it does.                                                     *)
C29_Witness ==
    /\ state = "PLAYING"
    /\ \E pr \in StrictPairs : pr[2].remaining_mines < 0 /\ PairExtra(pr) < 0

(***************************************************************************)
(* C30.  Frontier extraction: collect_frontier returns, in row-major       *)
(* order, exactly one view for each revealed cell with neighbor_mines > 0  *)
(* that has an unrevealed unflagged neighbour; in each view                *)
(* hidden_neighbors is the set of those neighbours (never empty),          *)
(* flagged_neighbors the number of flagged neighbours and remaining_mines  *)
(* = neighbor_mines - flagged_neighbors.  The frontier solve_step builds   *)
(* (its frontier_data) lists the same cells with the same hidden sets and  *)
(* counts.                                                                 *)
(***************************************************************************)
Undecided(p) == {n \in Coords : Adjacent(p, n) /\ ~IsRevealed(n) /\ ~IsFlagged(n)}

FlagsAround(p) == Cardinality({n \in Coords : Adjacent(p, n) /\ IsFlagged(n)})

OpenNumbered ==
    {p \in Coords : IsRevealed(p) /\ cells[p].neighbor_mines > 0 /\ Undecided(p) # {}}

SolverFrontier(order) ==
    FrontierLoop(board, NoMovesYet, get_frontier_cells(board), order).frontier_data

C30_FrontierExtraction ==
    LET views == collect_frontier(board)
        at(i) == <<views[i].row, views[i].col>>
    IN /\ {at(i) : i \in DOMAIN views} = OpenNumbered
       /\ \A i \in DOMAIN views, j \in DOMAIN views : i < j => CoordLess(at(i), at(j))
       /\ \A i \in DOMAIN views :
             /\ views[i].hidden_neighbors = Undecided(at(i))
             /\ views[i].hidden_neighbors # {}
             /\ views[i].flagged_neighbors = FlagsAround(at(i))
             /\ views[i].remaining_mines
                    = cells[at(i)].neighbor_mines - views[i].flagged_neighbors
       /\ get_frontier_cells(board) = [i \in DOMAIN views |-> at(i)]
       /\ \A order \in IterOrders :
             SolverFrontier(order) = [i \in DOMAIN views |-> DataOf(views[i])]

(* A frontier of two cells or more, one of them with a flag beside it,     *)
(* next to a revealed numbered cell that is left out because every         *)
(* unrevealed neighbour of it is flagged.                                  *)
C30_Witness ==
    /\ Len(collect_frontier(board)) >= 2
    /\ \E v \in Views : v.flagged_neighbors > 0
    /\ \E p \in Coords :
          /\ IsRevealed(p) /\ cells[p].neighbor_mines > 0
          /\ Undecided(p) = {} /\ FlagsAround(p) > 0

(***************************************************************************)
(* C31.  The solver is a stateless read-only consumer.  solve_step has no  *)
(* state of its own and assigns no field of the board, so a call with no   *)
(* move to apply leaves the board as it was; and the set of moves of a     *)
(* call is a function of the board alone: it is the same whatever the      *)
(* order in which the hidden-neighbour sets are iterated and whatever the  *)
(* order in which the frontier cells are visited.                          *)
(***************************************************************************)
Reverse(s) == [i \in 1 .. Len(s) |-> s[Len(s) + 1 - i]]

MovesOver(frontier, order) ==
    Range(find_subset_deductions(board,
                                 FrontierLoop(board, NoMovesYet, frontier, order),
                                 order).certain_moves)

C31_SolverReadOnly ==
    LET frontier == get_frontier_cells(board)
        moves == MoveSet("asc")
    IN \A order \in IterOrders :
           /\ MoveSet(order) = moves
           /\ MovesOver(frontier, order) = moves
           /\ MovesOver(Reverse(frontier), order) = moves
           /\ moves = {} => \A mine_locations \in AnySample :
                                do_solve(board, order, mine_locations) = board

(* Two iteration orders give two different lists of at least three moves,  *)
(* over a frontier of at least two cells.                                  *)
C31_Witness ==
    /\ solve_step(board, "asc") # solve_step(board, "desc")
    /\ Cardinality(MoveSet("asc")) >= 3
    /\ Len(get_frontier_cells(board)) >= 2

(***************************************************************************)
(* C32.  Batch application stops at game end: do_solve applies the moves   *)
(* of one solve_step result in list order through flag and reveal; it      *)
(* applies a move only while state is PLAYING, so the moves that follow a  *)
(* winning or losing reveal are not applied; and it applies nothing when   *)
(* the game is already WON or LOST.                                        *)
(***************************************************************************)
RECURSIVE AfterMoves(_, _, _)
AfterMoves(moves, k, mine_locations) ==
    IF k = 0 THEN board
    ELSE LET before == AfterMoves(moves, k - 1, mine_locations)
             m == moves[k]
         IN IF m[3] = "FLAG" THEN flag(before, m[1], m[2])
            ELSE reveal(before, m[1], m[2], mine_locations)

(* The number of moves after which the game is over, or all of them. *)
StopsAfter(moves, mine_locations) ==
    LET over == {k \in 0 .. Len(moves) : AfterMoves(moves, k, mine_locations).state # "PLAYING"}
    IN IF over = {} THEN Len(moves)
       ELSE CHOOSE k \in over : \A j \in over : k <= j

C32_BatchStopsAtGameEnd ==
    \A order \in IterOrders : \A mine_locations \in SolveSamples(board, order) :
        LET moves == solve_step(board, order)
            applied == do_solve_applied(board, order, mine_locations)
            after == do_solve(board, order, mine_locations)
            stop == StopsAfter(moves, mine_locations)
        IN /\ state # "PLAYING" => applied = <<>> /\ after = board
           /\ state = "PLAYING" =>
                 /\ applied = SubSeq(moves, 1, stop)
                 /\ after = AfterMoves(moves, stop, mine_locations)
                 /\ stop < Len(moves) => after.state # "PLAYING"

(* A batch whose game ends before its last move. *)
C32_Witness ==
    /\ state = "PLAYING"
    /\ \E order \in IterOrders :
          LET moves == solve_step(board, order)
          IN /\ Len(moves) >= 3
             /\ StopsAfter(moves, {}) < Len(moves)
             /\ StopsAfter(moves, {}) >= 2

(***************************************************************************)
(* C33.  Rendering of a cell is a fixed function of is_revealed, is_mine,  *)
(* is_flagged, neighbor_mines and game over: revealed mine -> 'M';         *)
(* revealed non-mine -> its digit, '.' for 0; hidden flagged -> 'F' while  *)
(* PLAYING or when the cell is a mine, 'X' when the game is over and the   *)
(* cell is not a mine; hidden unflagged mine -> 'M' once the game is over; *)
(* every other hidden cell -> '#'.                                         *)
(***************************************************************************)
Rendered(cell, game_over) ==
    CASE cell.is_revealed /\ cell.is_mine -> "M"
      [] cell.is_revealed /\ ~cell.is_mine /\ cell.neighbor_mines = 0 -> "."
      [] cell.is_revealed /\ ~cell.is_mine /\ cell.neighbor_mines # 0 ->
             <<"1", "2", "3", "4", "5", "6", "7", "8">>[cell.neighbor_mines]
      [] ~cell.is_revealed /\ cell.is_flagged /\ (~game_over \/ cell.is_mine) -> "F"
      [] ~cell.is_revealed /\ cell.is_flagged /\ game_over /\ ~cell.is_mine -> "X"
      [] ~cell.is_revealed /\ ~cell.is_flagged /\ cell.is_mine /\ game_over -> "M"
      [] OTHER -> "#"

AnyCell ==
    [is_mine : BOOLEAN, neighbor_mines : 0 .. 8, is_revealed : BOOLEAN, is_flagged : BOOLEAN]

RenderedEverywhere ==
    \A cell \in AnyCell, board_state \in {"PLAYING", "WON", "LOST"}, show_mines \in BOOLEAN :
        get_cell_char(cell, board_state, show_mines) = Rendered(cell, show_mines)

C34_FlagsAreBarriers ==
    /\ \A q \in Coords :
          (IsFlagged(q) /\ ~IsMine(q)) => ~IsRevealed(q) /\ state # "WON"
    /\ \A p \in CallArgs : \A mine_locations \in RevealSamples(board, p[1], p[2]) :
          LET after == reveal(board, p[1], p[2], mine_locations)
              opened == {q \in Coords : after.cells[q].is_revealed /\ ~IsRevealed(q)}
          IN /\ \A q \in Coords : IsFlagged(q) => q \notin opened
             /\ \A q \in opened \ {p} :
                   \E z \in opened :
                       /\ Adjacent(z, q)
                       /\ after.cells[z].neighbor_mines = 0 /\ ~after.cells[z].is_mine
                       /\ ~IsFlagged(z)

(* A cascade has passed a flagged safe cell with no mine around it: the    *)
(* cell is still hidden beside a revealed zero cell.                       *)
C34_Witness ==
    /\ state = "PLAYING"
    /\ \E q \in Coords, z \in Coords :
          /\ IsFlagged(q) /\ ~IsMine(q) /\ ~IsRevealed(q)
          /\ cells[q].neighbor_mines = 0
          /\ Adjacent(z, q) /\ IsRevealed(z) /\ cells[z].neighbor_mines = 0

(***************************************************************************)
(* C35.  The flood cascade terminates and enqueues each coordinate at most *)
(* once: in a reveal call a cell is appended to the work queue only when   *)
(* it is first revealed, so the queue receives at most rows * cols         *)
(* entries, each a different one, and the origin is never enqueued again.  *)
(* The loop runs until the queue is empty: the entries are the clicked     *)
(* cell and the zero cells the call reveals, all of them processed.        *)
(***************************************************************************)
C35_EnqueuedOnce ==
    \A p \in Coords : \A mine_locations \in RevealSamples(board, p[1], p[2]) :
        LET placed == IF mines_placed THEN board
                      ELSE calculate_neighbor_counts(
                               place_mines(board, p[1], p[2], mine_locations))
            after == reveal(board, p[1], p[2], mine_locations)
            entries == reveal_enqueued(placed, p[1], p[2])
            opened == {q \in Coords : after.cells[q].is_revealed /\ ~IsRevealed(q)}
        IN (~RevealRefused(p) /\ ~placed.cells[p].is_mine) =>
               /\ Len(entries) <= rows * cols
               /\ \A i \in DOMAIN entries, j \in DOMAIN entries :
                     entries[i] = entries[j] => i = j
               /\ \A i \in DOMAIN entries : entries[i] = p <=> i = 1
               /\ Range(entries) \subseteq opened
               /\ placed.cells[p].neighbor_mines = 0 =>
                     Range(entries) = {q \in opened : placed.cells[q].neighbor_mines = 0}
               /\ placed.cells[p].neighbor_mines # 0 => entries = <<>>

(* A zero cell can be revealed whose call puts three entries or more in    *)
(* the queue: the zero cells of the cascade are neighbours of one another. *)
C35_Witness ==
    /\ mines_placed /\ state = "PLAYING"
    /\ \E p \in Coords :
          /\ ~RevealRefused(p) /\ ~IsMine(p)
          /\ Len(reveal_enqueued(board, p[1], p[2])) >= 3

(***************************************************************************)
(* C36.  A losing reveal uncovers only the mine: reveal of a mine cell     *)
(* sets is_revealed of that cell and state = LOST and changes nothing      *)
(* else, with no cascade.  So no mine is revealed while state is PLAYING   *)
(* or WON, exactly one mine is revealed when state is LOST, and the        *)
(* cascade of a reveal never reveals a mine.                               *)
(***************************************************************************)
RevealedMines == {q \in Coords : IsMine(q) /\ IsRevealed(q)}

C36_LosingReveal ==
    /\ state \in {"PLAYING", "WON"} => RevealedMines = {}
    /\ state = "LOST" => Cardinality(RevealedMines) = 1
    /\ \A p \in Coords : \A mine_locations \in RevealSamples(board, p[1], p[2]) :
          LET after == reveal(board, p[1], p[2], mine_locations)
              opened == {q \in Coords : after.cells[q].is_revealed /\ ~IsRevealed(q)}
          IN /\ (~RevealRefused(p) /\ IsMine(p)) =>
                   /\ after.state = "LOST"
                   /\ after.mines = mines /\ after.mines_placed = mines_placed
                   /\ after.rows = rows /\ after.cols = cols
                   /\ after.cells = [q \in Coords |->
                                        IF q = p
                                        THEN [is_mine |-> cells[p].is_mine,
                                              neighbor_mines |-> cells[p].neighbor_mines,
                                              is_revealed |-> TRUE,
                                              is_flagged |-> cells[p].is_flagged]
                                        ELSE cells[q]]
             /\ \A q \in opened \ {p} : ~after.cells[q].is_mine

(* A lost game: the mine that was hit lies beside a hidden safe cell and   *)
(* beside the other mine, both still hidden.                               *)
C36_Witness ==
    /\ state = "LOST"
    /\ \E p \in RevealedMines, q \in Coords, m \in Coords :
          /\ Adjacent(p, q) /\ ~IsMine(q) /\ ~IsRevealed(q) /\ ~IsFlagged(q)
          /\ Adjacent(p, m) /\ IsMine(m) /\ ~IsRevealed(m) /\ ~IsFlagged(m)

(***************************************************************************)
(* C37.  No cell is ever both revealed and flagged: in every state reached *)
(* from a fresh board by reveal and flag calls, is_revealed and is_flagged *)
(* are never true together for the same cell.                              *)
(***************************************************************************)
C37_NeverRevealedAndFlagged ==
    \A q \in Coords : ~(cells[q].is_revealed /\ cells[q].is_flagged)

(* Flags, revealed cells of a cascade next to them, and a flag call on a   *)
(* revealed cell still possible.                                           *)
C37_Witness ==
    /\ state = "PLAYING"
    /\ Cardinality({q \in Coords : IsFlagged(q)}) = 2
    /\ \E q \in Coords, z \in Coords :
          /\ IsFlagged(q) /\ Adjacent(q, z)
          /\ IsRevealed(z) /\ cells[z].neighbor_mines = 0
    /\ \E q \in Coords : IsRevealed(q) /\ cells[q].neighbor_mines > 0

(***************************************************************************)
(* C38.  The first successful reveal never loses and always cascades:      *)
(* after the first successful reveal(r, c) state is PLAYING or WON, never  *)
(* LOST, the cell (r, c) has neighbor_mines = 0, and (r, c) and every      *)
(* in-bounds neighbour of it that was not flagged are revealed.            *)
(***************************************************************************)
C38_FirstRevealCascades ==
    ~mines_placed =>
        \A p \in Coords : \A mine_locations \in RevealSamples(board, p[1], p[2]) :
            LET after == reveal(board, p[1], p[2], mine_locations)
            IN ~RevealRefused(p) =>
                   /\ after.mines_placed
                   /\ after.state \in {"PLAYING", "WON"}
                   /\ after.cells[p].neighbor_mines = 0
                   /\ after.cells[p].is_revealed
                   /\ \A q \in Coords :
                         (Adjacent(p, q) /\ ~IsFlagged(q)) => after.cells[q].is_revealed

(* The board right after a first reveal beside a flag: the clicked zero    *)
(* cell and its unflagged neighbours are the revealed cells, the flagged   *)
(* neighbour is hidden and the two mines lie further away.                 *)
C38_Witness ==
    /\ mines_placed /\ state = "PLAYING" /\ mines = 2
    /\ \E p \in Coords :
          /\ cells[p].neighbor_mines = 0
          /\ {q \in Coords : IsRevealed(q)}
                 = {q \in Coords : (q = p \/ Adjacent(p, q)) /\ ~IsFlagged(q)}
          /\ IsRevealed(p)
          /\ \E q \in Coords : Adjacent(p, q) /\ IsFlagged(q)

(***************************************************************************)
(* C39.  With correct flags the solver cannot lose the game: on every      *)
(* reachable PLAYING board on which every flagged cell is a mine, every    *)
(* FLAG move of solve_step targets a mine and every REVEAL move a safe     *)
(* cell, no coordinate receives both actions, and the whole batch applied  *)
(* in order as do_solve applies it never sets state to LOST and leaves     *)
(* every flag on a mine.                                                   *)
(***************************************************************************)
C39_SolverCannotLose ==
    (state = "PLAYING" /\ \A q \in Coords : cells[q].is_flagged => cells[q].is_mine) =>
        \A order \in IterOrders :
            LET moves == solve_step(board, order)
            IN /\ \A i \in DOMAIN moves :
                     /\ moves[i][3] = "FLAG" => cells[<<moves[i][1], moves[i][2]>>].is_mine
                     /\ moves[i][3] = "REVEAL" => ~cells[<<moves[i][1], moves[i][2]>>].is_mine
               /\ \A i \in DOMAIN moves, j \in DOMAIN moves :
                     (moves[i][1] = moves[j][1] /\ moves[i][2] = moves[j][2])
                     => moves[i][3] = moves[j][3]
               /\ \A mine_locations \in SolveSamples(board, order) :
                     LET after == do_solve(board, order, mine_locations)
                     IN /\ after.state # "LOST"
                        /\ \A q \in Coords :
                              after.cells[q].is_flagged => after.cells[q].is_mine

(* A board with a flag on a mine on which one batch both flags the other   *)
(* mine and reveals a safe cell.                                           *)
C39_Witness ==
    /\ state = "PLAYING"
    /\ \A q \in Coords : IsFlagged(q) => IsMine(q)
    /\ \E q \in Coords : IsFlagged(q)
    /\ \E m \in MoveSet("desc") : m[3] = "FLAG"
    /\ \E m \in MoveSet("desc") : m[3] = "REVEAL"

(***************************************************************************)
(* C40.  The two solver implementations agree: for every board, the set of *)
(* moves MinemindSolver.solve_step returns is the union of the moves of    *)
(* apply_trivial_rules and of apply_subset_rules run on                    *)
(* collect_frontier(board), on over-flagged boards with negative           *)
(* remaining_mines as on the others.                                       *)
(***************************************************************************)
RuleMoves(order) ==
    LET frontier == collect_frontier(board)
    IN Range(apply_trivial_rules(frontier, order))
           \cup Range(apply_subset_rules(frontier, order))

C40_ImplementationsAgree ==
    \A solver_order \in IterOrders, rules_order \in IterOrders :
        MoveSet(solver_order) = RuleMoves(rules_order)

(* An over-flagged board on which the subset rules and the trivial rules   *)
(* both find moves.                                                        *)
C40_Witness ==
    LET frontier == collect_frontier(board)
    IN /\ \E i \in DOMAIN frontier : frontier[i].remaining_mines < 0
       /\ apply_subset_rules(frontier, "asc") # <<>>
       /\ apply_trivial_rules(frontier, "asc") # <<>>

====
